---- MODULE Spec2Model ----
(***************************************************************************)
(* hotnet: the per-unit behaviour engine (BaseUnit), the spawner and the   *)
(* frame driver, modelled as a state machine.                              *)
(*                                                                         *)
(* The repository holds two builds of the unit class.  The variable        *)
(* `variant` says which one a run is about:                                *)
(*   "current" - src/unnamed/part_000 (BaseUnit with the death delay),     *)
(*               driven by the ticker of src/unnamed/part_008;             *)
(*   "legacy"  - src/src/units/BaseUnit.ts lines 1-405 (guarded            *)
(*               takeDamage/attack, separation movement), driven by the    *)
(*               ticker of src/src/components/Game.tsx.                    *)
(* A third value, "oldest", stands for the first build of the class        *)
(* (BaseUnit.ts lines 406-629) with the collision driver of                *)
(* src/src/components/GameScreen.tsx; it has specifications of its own.    *)
(*                                                                         *)
(* Numbers.  Health, damage and range are integers.  speed is kept in      *)
(* hundredths of a pixel per second and attackSpeed in tenths of an attack *)
(* per second; faction multipliers are kept in tenths.  Time is in         *)
(* milliseconds, positions are integer pixel coordinates.                  *)
(***************************************************************************)
EXTENDS Integers, Sequences, FiniteSets, TLC

VARIABLES
    variant,    \* which build of BaseUnit the run uses
    units,      \* every BaseUnit object created so far: id -> record
    children,   \* unitsContainer.children, in insertion order
    frame,      \* the ticker callback: [active, idx, delta] and, for the pass in
                \* progress, the children and the units it began with, the
                \* units it has called update on and the handleCollision calls
    built,      \* outcome of the last constructor call
    calls,      \* takeDamage / heal calls made from outside the unit so far
    lastCall    \* the one made since the last frame, if any: what it was given
                \* and the health and dead flag it found

vars == <<variant, units, children, frame, built, calls, lastCall>>

-----------------------------------------------------------------------------
(* Bounds of the model *)

MaxUnits == 2          \* BaseUnit objects created in one run
MaxCalls == 2          \* takeDamage / heal calls made from outside in one run

\* Time is kept relative to the present: Date.now() always reads `now`, and when
\* time passes every stored timestamp slides back by as much (TickerFrame).  The
\* code only ever looks at the difference between Date.now() and a stored
\* timestamp and at whether the timestamp is still 0, and both are kept.
now == 5000

Variants == {"current", "legacy"}

\* unit types a constructor call is tried with: the nine of the table and one
\* the table does not have (GameLayout.tsx:288 casts it to UnitType)
KnownTypes == {"Warrior", "Knight", "Berserker", "Archer", "Sniper", "Artillery",
               "Medic", "Guardian", "Enchanter"}
UnknownType == "RangedBasic"
AllTypes == KnownTypes \cup {UnknownType}

\* factions: the three with a multiplier entry and one without (README:62)
RegisteredFactions == {"Netrunners", "Cyborgs", "Rogue AI"}
UnregisteredFaction == "Megacorps"
AllFactions == RegisteredFactions \cup {UnregisteredFaction}

-----------------------------------------------------------------------------
(* Configuration tables: src/src/types/units.ts *)

BASE_UNIT_STATS(type) ==
    CASE type = "Warrior"   -> [health |-> 150, maxHealth |-> 150, damage |-> 65,
                                speed |-> 1250, range |-> 30,  attackSpeed |-> 12]
      [] type = "Knight"    -> [health |-> 300, maxHealth |-> 300, damage |-> 100,
                                speed |-> 940,  range |-> 35,  attackSpeed |-> 10]
      [] type = "Berserker" -> [health |-> 400, maxHealth |-> 400, damage |-> 150,
                                speed |-> 1125, range |-> 40,  attackSpeed |-> 15]
      [] type = "Archer"    -> [health |-> 100, maxHealth |-> 100, damage |-> 45,
                                speed |-> 1060, range |-> 150, attackSpeed |-> 10]
      [] type = "Sniper"    -> [health |-> 120, maxHealth |-> 120, damage |-> 80,
                                speed |-> 875,  range |-> 200, attackSpeed |-> 8]
      [] type = "Artillery" -> [health |-> 150, maxHealth |-> 150, damage |-> 120,
                                speed |-> 750,  range |-> 250, attackSpeed |-> 6]
      [] type = "Medic"     -> [health |-> 120, maxHealth |-> 120, damage |-> 20,
                                speed |-> 1250, range |-> 100, attackSpeed |-> 10]
      [] type = "Guardian"  -> [health |-> 180, maxHealth |-> 180, damage |-> 30,
                                speed |-> 1060, range |-> 120, attackSpeed |-> 8]
      [] type = "Enchanter" -> [health |-> 250, maxHealth |-> 250, damage |-> 40,
                                speed |-> 940,  range |-> 150, attackSpeed |-> 7]

\* BASE_UNIT_STATS[type] is undefined for any other key
HasBaseStats(type) == type \in KnownTypes

\* FACTION_MODIFIERS: tenths; every registered faction has 1.0 for each of the
\* four stats it lists
FACTION_MODIFIERS(faction) ==
    CASE faction = "Netrunners" -> [damage |-> 10, speed |-> 10, health |-> 10, range |-> 10]
      [] faction = "Cyborgs"    -> [damage |-> 10, speed |-> 10, health |-> 10, range |-> 10]
      [] faction = "Rogue AI"   -> [damage |-> 10, speed |-> 10, health |-> 10, range |-> 10]

HasModifiers(faction) == faction \in RegisteredFactions

-----------------------------------------------------------------------------
(* Program constants *)

TARGET_SEARCH_INTERVAL == 500
CONTROL_POINT_RADIUS == 80
DEATH_DELAY == 1000

\* props of GameScreen: the size of the canvas, in pixels
ScreenWidth == 184
ScreenHeight == 184

NoTarget == 0                       \* state.currentTarget is undefined
NoTime == -1                        \* deathTime is null
NoPoint == <<-9999, -9999>>         \* targetPosition is null

Min(a, b) == IF a <= b THEN a ELSE b
Max(a, b) == IF a >= b THEN a ELSE b

\* Math.round of the non-negative quotient n / d
Round(n, d) == (2 * n + d) \div (2 * d)

\* quotient rounded toward zero
TruncDiv(n, d) == IF n >= 0 THEN n \div d ELSE -((-n) \div d)

RECURSIVE ISqrtFrom(_, _)
ISqrtFrom(n, r) == IF (r + 1) * (r + 1) > n THEN r ELSE ISqrtFrom(n, r + 1)
\* floor of Math.sqrt(n)
ISqrt(n) == ISqrtFrom(n, 0)

SqDist(p, q) == (q[1] - p[1]) * (q[1] - p[1]) + (q[2] - p[2]) * (q[2] - p[2])

-----------------------------------------------------------------------------
(* Map geometry: GameScreen (part_008:73-80) and UnitSpawner (part_001) *)

mapSize == Min(ScreenWidth, ScreenHeight)
spawnCentre == <<ScreenWidth \div 2, ScreenHeight \div 2>>
spawnRadius == (mapSize * 45) \div 100
innerRadius == (spawnRadius * 7) \div 10

\* gameContainer.width / 2, gameContainer.height / 2: the container's content
\* spans the canvas
controlPoint == <<ScreenWidth \div 2, ScreenHeight \div 2>>

\* The sectors the model spawns in, each with the unit vector (cos, sin) of the
\* angle drawn in the middle of its span: N spans -112.5..-67.5 degrees and the
\* draw 0.5 gives -90; S spans 67.5..112.5 and the draw 0.5 gives 90.
Sectors == {"N", "S"}
SectorDir(position) == IF position = "N" THEN <<0, -1>> ELSE <<0, 1>>

\* radii drawn between innerRadius and spawnRadius
RadiusDraws == {r \in {70, 82} : innerRadius <= r /\ r <= spawnRadius}

calculateSpawnPoint(position, randomRadius) ==
    <<spawnCentre[1] + randomRadius * SectorDir(position)[1],
      spawnCentre[2] + randomRadius * SectorDir(position)[2]>>

\* the eight labels in the order getNextPosition steps through them
OctagonPositions == <<"N", "NE", "E", "SE", "S", "SW", "W", "NW">>

\* positions.ts:20-29, in sixteenths of pi
POSITION_ANGLES(position) ==
    CASE position = "N"  -> -10
      [] position = "NE" -> -6
      [] position = "E"  -> -2
      [] position = "SE" -> 2
      [] position = "S"  -> 6
      [] position = "SW" -> 10
      [] position = "W"  -> 14
      [] position = "NW" -> -14

\* part_001:42-46
getNextPosition(position) ==
    LET currentIndex == CHOOSE i \in 1..8 : OctagonPositions[i] = position
    IN  OctagonPositions[(currentIndex % 8) + 1]

\* Math.random() draws for the angle, in halves
AngleDraws == {0, 1}

\* part_001:31, in sixteenths of pi
randomAngle(position, draw) ==
    POSITION_ANGLES(position)
        + (draw * (POSITION_ANGLES(getNextPosition(position)) - POSITION_ANGLES(position))) \div 2

\* Math.cos and Math.sin of an angle of k eighths of pi, in thousandths
CosTable == <<1000, 924, 707, 383, 0, -383, -707, -924,
              -1000, -924, -707, -383, 0, 383, 707, 924>>
Cos(a) == CosTable[((a \div 2) % 16) + 1]
Sin(a) == Cos(a - 8)

\* n / d to the nearest whole number
Nearest(n, d) == IF n >= 0 THEN Round(n, d) ELSE -Round(-n, d)

\* part_001:24-40 with both draws, to the nearest pixel
calculateSpawnPointAt(position, randomRadius, draw) ==
    <<spawnCentre[1] + Nearest(randomRadius * Cos(randomAngle(position, draw)), 1000),
      spawnCentre[2] + Nearest(randomRadius * Sin(randomAngle(position, draw)), 1000)>>

-----------------------------------------------------------------------------
(* BaseUnit: construction *)

defaultModifiers == [damage |-> 10, speed |-> 10, health |-> 10, range |-> 10]

\* m.f || 1.0
OrOne(x) == IF x = 0 THEN 10 ELSE x

NaNStats == [health |-> 0, maxHealth |-> 0, damage |-> 0, speed |-> 0,
             range |-> 0, attackSpeed |-> 0]

\* the object `new BaseUnit(...)` leaves behind when it returns
NewUnit(faction, type, position, stats, nan, timer) ==
    [faction |-> faction, type |-> type, stats |-> stats,
     nan |-> nan,                   \* every stat and the health are NaN
     position |-> position,
     targetPosition |-> NoPoint,
     currentHealth |-> stats.health,
     isMoving |-> FALSE, isAttacking |-> FALSE, isDead |-> FALSE,
     currentTarget |-> NoTarget,
     lastAttackTime |-> 0, lastTargetSearchTime |-> 0,
     deathTime |-> NoTime,
     timer |-> timer]               \* the constructor's setTimeout is pending

Thrown(faction, type, position, error) ==
    [ok |-> FALSE, error |-> error,
     unit |-> NewUnit(faction, type, position, NaNStats, FALSE, FALSE)]

Constructed(unit) == [ok |-> TRUE, error |-> "none", unit |-> unit]

\* faulty constructor: the damage is taken from the health column
constructorWrongColumn(faction, type, position) ==
    IF ~HasBaseStats(type)
    THEN Thrown(faction, type, position, "Error: No base stats found for unit type")
    ELSE LET baseStats == BASE_UNIT_STATS(type)
             modifiers == IF HasModifiers(faction) THEN FACTION_MODIFIERS(faction)
                          ELSE defaultModifiers
             stats == [health      |-> Round(baseStats.health * OrOne(modifiers.health), 10),
                       maxHealth   |-> Round(baseStats.maxHealth * OrOne(modifiers.health), 10),
                       damage      |-> Round(baseStats.health * OrOne(modifiers.damage), 10),
                       speed       |-> (baseStats.speed * OrOne(modifiers.speed)) \div 10,
                       range       |-> Round(baseStats.range * OrOne(modifiers.range), 10),
                       attackSpeed |-> baseStats.attackSpeed]
         IN  Constructed(NewUnit(faction, type, position, stats, FALSE, TRUE))

\* part_000 constructor: throws on a type without base stats; a faction without
\* modifiers gets the default ones; health, maxHealth, damage and range are
\* rounded, speed is not, attackSpeed is the base one
constructorCurrent(faction, type, position) ==
    IF ~HasBaseStats(type)
    THEN Thrown(faction, type, position, "Error: No base stats found for unit type")
    ELSE LET baseStats == BASE_UNIT_STATS(type)
             modifiers == IF HasModifiers(faction) THEN FACTION_MODIFIERS(faction)
                          ELSE defaultModifiers
             stats == [health      |-> Round(baseStats.health * OrOne(modifiers.health), 10),
                       maxHealth   |-> Round(baseStats.maxHealth * OrOne(modifiers.health), 10),
                       damage      |-> Round(baseStats.damage * OrOne(modifiers.damage), 10),
                       speed       |-> (baseStats.speed * OrOne(modifiers.speed)) \div 10,
                       range       |-> Round(baseStats.range * OrOne(modifiers.range), 10),
                       attackSpeed |-> baseStats.attackSpeed]
         IN  Constructed(NewUnit(faction, type, position, stats, FALSE, TRUE))

\* BaseUnit.ts:26-69: no check of the type, no default for the faction.  A type
\* without base stats spreads to {} and every product is NaN; a faction without
\* modifiers makes `modifiers.health` a TypeError.  The products are not
\* rounded; with the table's multipliers (all 1.0) they are whole numbers.
constructorLegacy(faction, type, position) ==
    IF ~HasModifiers(faction)
    THEN Thrown(faction, type, position, "TypeError: modifiers is undefined")
    ELSE IF ~HasBaseStats(type)
    THEN Constructed(NewUnit(faction, type, position, NaNStats, TRUE, FALSE))
    ELSE LET baseStats == BASE_UNIT_STATS(type)
             modifiers == FACTION_MODIFIERS(faction)
             stats == [health      |-> (baseStats.health * OrOne(modifiers.health)) \div 10,
                       maxHealth   |-> (baseStats.maxHealth * OrOne(modifiers.health)) \div 10,
                       damage      |-> (baseStats.damage * OrOne(modifiers.damage)) \div 10,
                       speed       |-> (baseStats.speed * OrOne(modifiers.speed)) \div 10,
                       range       |-> (baseStats.range * OrOne(modifiers.range)) \div 10,
                       attackSpeed |-> baseStats.attackSpeed]
         IN  Constructed(NewUnit(faction, type, position, stats, FALSE, FALSE))

constructor(v, faction, type, position) ==
    IF v = "current" THEN constructorCurrent(faction, type, position)
    ELSE constructorLegacy(faction, type, position)

-----------------------------------------------------------------------------
(* BaseUnit: health *)

isAlive(u) == ~u.isDead

\* faulty takeDamage: the health is not cut off at 0
takeDamageUnclamped(u, amount) ==
    LET h == u.currentHealth - amount
    IN  IF h <= 0 THEN [u EXCEPT !.currentHealth = h, !.isDead = TRUE]
        ELSE [u EXCEPT !.currentHealth = h]

\* faulty takeDamage: the dead flag is forgotten
takeDamageNoFlag(u, amount) ==
    LET h == u.currentHealth - amount
    IN  IF h <= 0 THEN [u EXCEPT !.currentHealth = 0]
        ELSE [u EXCEPT !.currentHealth = h]

\* part_000:439-445: no test of the dead flag
takeDamageCurrent(u, amount) ==
    LET h == u.currentHealth - amount
    IN  IF h <= 0 THEN [u EXCEPT !.currentHealth = 0, !.isDead = TRUE]
        ELSE [u EXCEPT !.currentHealth = h]

\* BaseUnit.ts:328-338
takeDamageLegacy(u, amount) ==
    IF u.isDead THEN u
    ELSE LET h == Max(0, u.currentHealth - amount)
         IN  IF h <= 0 THEN [u EXCEPT !.currentHealth = h, !.isDead = TRUE]
             ELSE [u EXCEPT !.currentHealth = h]

takeDamage(v, u, amount) ==
    IF v = "current" THEN takeDamageCurrent(u, amount) ELSE takeDamageLegacy(u, amount)

\* faulty heal: no cap at maxHealth
healUncapped(u, amount) ==
    IF u.isDead THEN u
    ELSE [u EXCEPT !.currentHealth = u.currentHealth + amount]

\* faulty heal: the dead flag is not looked at
healTheDead(u, amount) ==
    [u EXCEPT !.currentHealth = Min(u.stats.maxHealth, u.currentHealth + amount)]

\* faulty heal: a dead unit that gains health lives again
healRevives(u, amount) ==
    LET h == Min(u.stats.maxHealth, u.currentHealth + amount)
    IN  [u EXCEPT !.currentHealth = h, !.isDead = (h <= 0)]

\* part_000:453-457 and BaseUnit.ts:340-348 are the same code
heal(u, amount) ==
    IF u.isDead THEN u
    ELSE [u EXCEPT !.currentHealth = Min(u.stats.maxHealth, u.currentHealth + amount)]

getHealth(u) == u.currentHealth

-----------------------------------------------------------------------------
(* BaseUnit: movement and combat primitives *)

getPosition(u) == u.position

\* faulty moveTo: the order is dropped
moveToDropped(u, target) == u

\* faulty moveTo: the moving flag is not raised
moveToNoFlag(u, target) == [u EXCEPT !.targetPosition = target]

moveTo(u, target) == [u EXCEPT !.targetPosition = target, !.isMoving = TRUE]

\* faulty isInRange: the boundary is left out
isInRangeStrict(u, target) ==
    SqDist(u.position, getPosition(target)) < u.stats.range * u.stats.range

isInRange(u, target) ==
    SqDist(u.position, getPosition(target)) <= u.stats.range * u.stats.range

\* per-type damage variance, in percent (part_000:399-428)
Variance(type) ==
    CASE type = "Warrior"   -> 15
      [] type = "Knight"    -> 20
      [] type = "Berserker" -> 25
      [] type = "Archer"    -> 10
      [] type = "Sniper"    -> 5
      [] type = "Artillery" -> 30
      [] type = "Medic"     -> 10
      [] type = "Guardian"  -> 15
      [] type = "Enchanter" -> 20
      [] OTHER              -> 10

\* Math.random() draws, in hundredths
Rolls == {0, 99}

\* part_000:430-432: Math.round(minDamage + random * (maxDamage - minDamage))
rollDamageCurrent(u, roll) ==
    LET v == Variance(u.type)
    IN  Round(u.stats.damage * (100 - v) * 100 + roll * u.stats.damage * 2 * v, 10000)

\* BaseUnit.ts:372-380: variance by the type names 'Basic' and 'Advanced', any
\* other type gets 0.25; floor instead of round
rollDamageLegacy(u, roll) ==
    LET v == IF u.type = "Basic" THEN 15 ELSE IF u.type = "Advanced" THEN 20 ELSE 25
        minDamage == (u.stats.damage * (100 - v)) \div 100
        maxDamage == (u.stats.damage * (100 + v)) \div 100
    IN  (roll * (maxDamage - minDamage + 1)) \div 100 + minDamage

\* faulty performAttack: the struck unit turns on its attacker
performAttackCurrentProvokes(us, id, target, roll) ==
    [us EXCEPT ![target] = [takeDamageCurrent(us[target], rollDamageCurrent(us[id], roll))
                               EXCEPT !.currentTarget = id, !.isAttacking = TRUE]]

\* part_000:397-436
performAttackCurrent(us, id, target, roll) ==
    [us EXCEPT ![target] = takeDamageCurrent(us[target], rollDamageCurrent(us[id], roll))]

\* BaseUnit.ts:368-383
performAttackLegacy(us, id, target, roll) ==
    IF us[id].isDead THEN us
    ELSE [us EXCEPT ![target] = takeDamageLegacy(us[target], rollDamageLegacy(us[id], roll))]

\* faulty attack: the target is not remembered
attackForgetsTarget(us, id, target) ==
    [us EXCEPT ![id].isAttacking = TRUE]

\* part_000:383-386
attackCurrent(us, id, target) ==
    [us EXCEPT ![id].currentTarget = target, ![id].isAttacking = TRUE]

\* BaseUnit.ts:355-366: rejected when dead or out of range; the first attack
\* ever strikes at once
attackLegacy(us, id, target, time, roll) ==
    IF us[id].isDead \/ ~isInRange(us[id], us[target]) THEN us
    ELSE LET marked == [us EXCEPT ![id].isAttacking = TRUE, ![id].currentTarget = target]
         IN  IF us[id].lastAttackTime = 0
             THEN [performAttackLegacy(marked, id, target, roll)
                      EXCEPT ![id].lastAttackTime = time]
             ELSE marked

attack(v, us, id, target, time, roll) ==
    IF v = "current" THEN attackCurrent(us, id, target)
    ELSE attackLegacy(us, id, target, time, roll)

-----------------------------------------------------------------------------
(* BaseUnit: targeting policy (part_000:239-306, BaseUnit.ts:147-214) *)

\* this.type.startsWith('Ranged')
StartsWithRanged(type) == type \in {"RangedBasic", "RangedAdvanced", "RangedSpecial"}

\* the (offsetX, offsetY) pairs drawn for the move to the centre:
\* (Math.random() - 0.5) * 20 lies in [-10, 10)
Offsets == {<<0, 0>>, <<0, -10>>}

RECURSIVE scanForEnemy(_, _, _, _, _, _)

\* faulty scan: an enemy as near as the nearest so far replaces it
scanForEnemyLastWins(us, chs, id, i, nearestEnemy, nearestSq) ==
    IF i > Len(chs) THEN nearestEnemy
    ELSE LET unit == chs[i]
             me == us[id]
             sq == SqDist(me.position, us[unit].position)
             rangeSq == me.stats.range * me.stats.range
         IN  IF unit = id \/ ~isAlive(us[unit]) \/ us[unit].faction = me.faction
             THEN scanForEnemy(us, chs, id, i + 1, nearestEnemy, nearestSq)
             ELSE IF StartsWithRanged(me.type) /\ sq <= rangeSq /\ 4 * sq >= rangeSq
             THEN unit
             ELSE IF sq <= rangeSq /\ (nearestEnemy = NoTarget \/ sq <= nearestSq)
             THEN scanForEnemy(us, chs, id, i + 1, unit, sq)
             ELSE scanForEnemy(us, chs, id, i + 1, nearestEnemy, nearestSq)

\* faulty scan: dead units are not skipped
scanForEnemyTakesDead(us, chs, id, i, nearestEnemy, nearestSq) ==
    IF i > Len(chs) THEN nearestEnemy
    ELSE LET unit == chs[i]
             me == us[id]
             sq == SqDist(me.position, us[unit].position)
             rangeSq == me.stats.range * me.stats.range
         IN  IF unit = id \/ us[unit].faction = me.faction
             THEN scanForEnemy(us, chs, id, i + 1, nearestEnemy, nearestSq)
             ELSE IF StartsWithRanged(me.type) /\ sq <= rangeSq /\ 4 * sq >= rangeSq
             THEN unit
             ELSE IF sq <= rangeSq /\ (nearestEnemy = NoTarget \/ sq < nearestSq)
             THEN scanForEnemy(us, chs, id, i + 1, unit, sq)
             ELSE scanForEnemy(us, chs, id, i + 1, nearestEnemy, nearestSq)

\* the for loop over allUnits from index i on, with the nearest enemy found so
\* far; `break` returns at once
scanForEnemy(us, chs, id, i, nearestEnemy, nearestSq) ==
    IF i > Len(chs) THEN nearestEnemy
    ELSE LET unit == chs[i]
             me == us[id]
             sq == SqDist(me.position, us[unit].position)
             rangeSq == me.stats.range * me.stats.range
         IN  IF unit = id \/ ~isAlive(us[unit]) \/ us[unit].faction = me.faction
             THEN scanForEnemy(us, chs, id, i + 1, nearestEnemy, nearestSq)
             ELSE IF StartsWithRanged(me.type) /\ sq <= rangeSq /\ 4 * sq >= rangeSq
             THEN unit
             ELSE IF sq <= rangeSq /\ (nearestEnemy = NoTarget \/ sq < nearestSq)
             THEN scanForEnemy(us, chs, id, i + 1, unit, sq)
             ELSE scanForEnemy(us, chs, id, i + 1, nearestEnemy, nearestSq)

\* faulty policy: enemies are looked for outside the objective as well
searchForTargetsEverywhere(v, us, chs, id, time, offset, roll) ==
    LET me == us[id]
        nearestEnemy == scanForEnemy(us, chs, id, 1, NoTarget, 0)
    IN  IF nearestEnemy # NoTarget
        THEN IF isInRange(me, us[nearestEnemy])
             THEN attack(v, us, id, nearestEnemy, time, roll)
             ELSE [us EXCEPT ![id] = moveTo(me, getPosition(us[nearestEnemy]))]
        ELSE [us EXCEPT ![id].targetPosition = NoPoint, ![id].isMoving = FALSE]

\* faulty policy: with no enemy found the movement target is kept
searchForTargetsKeepsMoving(v, us, chs, id, time, offset, roll) ==
    LET me == us[id]
        centre == controlPoint
        insideControl ==
            SqDist(me.position, centre) <= CONTROL_POINT_RADIUS * CONTROL_POINT_RADIUS
        nearestEnemy == scanForEnemy(us, chs, id, 1, NoTarget, 0)
    IN  IF insideControl
        THEN IF nearestEnemy # NoTarget
             THEN IF isInRange(me, us[nearestEnemy])
                  THEN attack(v, us, id, nearestEnemy, time, roll)
                  ELSE [us EXCEPT ![id] = moveTo(me, getPosition(us[nearestEnemy]))]
             ELSE us
        ELSE [us EXCEPT ![id] = moveTo(me, <<centre[1] + offset[1], centre[2] + offset[2]>>)]

searchForTargets(v, us, chs, id, time, offset, roll) ==
    LET me == us[id]
        centre == controlPoint
        insideControl ==
            SqDist(me.position, centre) <= CONTROL_POINT_RADIUS * CONTROL_POINT_RADIUS
        nearestEnemy == scanForEnemy(us, chs, id, 1, NoTarget, 0)
    IN  IF insideControl
        THEN IF nearestEnemy # NoTarget
             THEN IF isInRange(me, us[nearestEnemy])
                  THEN attack(v, us, id, nearestEnemy, time, roll)
                  ELSE [us EXCEPT ![id] = moveTo(me, getPosition(us[nearestEnemy]))]
             ELSE [us EXCEPT ![id].targetPosition = NoPoint, ![id].isMoving = FALSE]
        ELSE [us EXCEPT ![id] = moveTo(me, <<centre[1] + offset[1], centre[2] + offset[2]>>)]

-----------------------------------------------------------------------------
(* BaseUnit: movement step *)

Abs(x) == IF x >= 0 THEN x ELSE -x

\* floor of Math.sqrt(dx * dx + dy * dy)
Length(dx, dy) == ISqrtFrom(dx * dx + dy * dy, Max(Abs(dx), Abs(dy)))

\* faulty updateMovement: on arrival the movement target is kept
updateMovementKeepsTarget(u, delta) ==
    IF u.targetPosition = NoPoint THEN u
    ELSE LET dx == u.targetPosition[1] - u.position[1]
             dy == u.targetPosition[2] - u.position[2]
             distance == Length(dx, dy)
         IN  IF dx * dx + dy * dy < 1
             THEN [u EXCEPT !.isMoving = FALSE]
             ELSE [u EXCEPT !.position =
                      <<u.position[1] + TruncDiv(dx * u.stats.speed * delta, 100000 * distance),
                        u.position[2] + TruncDiv(dy * u.stats.speed * delta, 100000 * distance)>>]

\* part_000:354-374.  speed * delta is speed (hundredths of a pixel per second)
\* times delta (ms); each component of the step is cut to whole pixels.
updateMovementCurrent(u, delta) ==
    IF u.targetPosition = NoPoint THEN u
    ELSE LET dx == u.targetPosition[1] - u.position[1]
             dy == u.targetPosition[2] - u.position[2]
             distance == Length(dx, dy)
         IN  IF dx * dx + dy * dy < 1
             THEN [u EXCEPT !.isMoving = FALSE, !.targetPosition = NoPoint]
             ELSE [u EXCEPT !.position =
                      <<u.position[1] + TruncDiv(dx * u.stats.speed * delta, 100000 * distance),
                        u.position[2] + TruncDiv(dy * u.stats.speed * delta, 100000 * distance)>>]

MIN_SEPARATION == 2
MIN_SEPARATION_LEGACY == 3
UNIT_SIZE_LEGACY == 20
UNIT_SIZE == 12

radius(v) == IF v = "current" THEN UNIT_SIZE \div 2 ELSE UNIT_SIZE_LEGACY \div 2

\* BaseUnit.ts:277-296: the sum over the close neighbours of the unit vector away
\* from each, weighted by 1 - d / minSeparation, and their number.  Vectors are
\* in thousandths.
RECURSIVE separationSum(_, _, _, _)
separationSum(us, chs, id, i) ==
    IF i > Len(chs) THEN [x |-> 0, y |-> 0, n |-> 0]
    ELSE LET rest == separationSum(us, chs, id, i + 1)
             other == chs[i]
             offsetX == us[id].position[1] - us[other].position[1]
             offsetY == us[id].position[2] - us[other].position[2]
             sqDist == offsetX * offsetX + offsetY * offsetY
             minSeparation == MIN_SEPARATION_LEGACY + radius("legacy") + radius("legacy")
             d == Length(offsetX, offsetY)
             strength == Max(0, 1000 - (1000 * d) \div minSeparation)
         IN  IF other = id \/ ~isAlive(us[other]) THEN rest
             ELSE IF sqDist < minSeparation * minSeparation /\ sqDist > 0
             THEN [x |-> rest.x + TruncDiv(offsetX * strength, d),
                   y |-> rest.y + TruncDiv(offsetY * strength, d),
                   n |-> rest.n + 1]
             ELSE rest

\* BaseUnit.ts:251-326
updateMovementLegacy(us, chs, id, delta) ==
    LET u == us[id]
    IN  IF u.targetPosition = NoPoint THEN u
        ELSE LET dx == u.targetPosition[1] - u.position[1]
                 dy == u.targetPosition[2] - u.position[2]
                 distance == Length(dx, dy)
             IN  IF dx * dx + dy * dy < 1
                 THEN [u EXCEPT !.isMoving = FALSE, !.targetPosition = NoPoint]
                 ELSE LET dirX == TruncDiv(dx * 1000, distance)
                          dirY == TruncDiv(dy * 1000, distance)
                          sum == separationSum(us, chs, id, 1)
                          avgX == IF sum.n > 0 THEN TruncDiv(sum.x, sum.n) ELSE 0
                          avgY == IF sum.n > 0 THEN TruncDiv(sum.y, sum.n) ELSE 0
                          sepLength == Length(avgX, avgY)
                          separationX == IF sepLength > 0
                                         THEN TruncDiv(avgX * 1000, sepLength) ELSE avgX
                          separationY == IF sepLength > 0
                                         THEN TruncDiv(avgY * 1000, sepLength) ELSE avgY
                          finalDirX == dirX + TruncDiv(separationX, 2)
                          finalDirY == dirY + TruncDiv(separationY, 2)
                          finalLength == Length(finalDirX, finalDirY)
                          normalizedDirX == IF finalLength > 0
                                            THEN TruncDiv(finalDirX * 1000, finalLength)
                                            ELSE dirX
                          normalizedDirY == IF finalLength > 0
                                            THEN TruncDiv(finalDirY * 1000, finalLength)
                                            ELSE dirY
                      IN  [u EXCEPT !.position =
                             <<u.position[1]
                                 + TruncDiv(normalizedDirX * u.stats.speed * delta, 100000000),
                               u.position[2]
                                 + TruncDiv(normalizedDirY * u.stats.speed * delta, 100000000)>>]

-----------------------------------------------------------------------------
(* BaseUnit: update *)

InContainer(chs, id) == \E i \in 1..Len(chs) : chs[i] = id

\* Container.removeChild: the later children move down one place
removeChild(chs, id) == SelectSeq(chs, LAMBDA c : c # id)

\* faulty cooldown test: the ms are taken for seconds
CooldownOverInMs(u, time) == (time - u.lastAttackTime) * u.stats.attackSpeed >= 10

\* (currentTime - lastAttackTime) / 1000 >= 1 / attackSpeed, attackSpeed in tenths
CooldownOver(u, time) == (time - u.lastAttackTime) * u.stats.attackSpeed >= 10000

\* the least whole number of ms after which CooldownOver holds
CooldownMs(u) == (10000 + u.stats.attackSpeed - 1) \div u.stats.attackSpeed

\* the one element of a singleton set
The(S) == CHOOSE x \in S : TRUE

\* faulty first block: the interval is not tested
searchStepEveryTick(v, us, chs, id, time, offset, roll) ==
    [(IF InContainer(chs, id)
      THEN searchForTargets(v, us, chs, id, time, offset, roll)
      ELSE us)
        EXCEPT ![id].lastTargetSearchTime = time]

\* update, first block (part_000:323-327, BaseUnit.ts:222-225): search for
\* targets when the interval has passed
searchStep(v, us, chs, id, time, offset, roll) ==
    IF time - us[id].lastTargetSearchTime >= TARGET_SEARCH_INTERVAL
    THEN [(IF InContainer(chs, id)
           THEN searchForTargets(v, us, chs, id, time, offset, roll)
           ELSE us)
             EXCEPT ![id].lastTargetSearchTime = time]
    ELSE us

\* update, second block (part_000:329-332, BaseUnit.ts:227-230): movement
movementStep(v, us, chs, id, delta) ==
    IF us[id].targetPosition # NoPoint
    THEN [us EXCEPT ![id] =
             IF v = "current" THEN updateMovementCurrent(us[id], delta)
             ELSE updateMovementLegacy(us, chs, id, delta)]
    ELSE us

\* faulty combat block: the range is not tested
combatStepAnyRange(v, us, id, time, roll) ==
    LET me == us[id]
        target == me.currentTarget
    IN  IF me.isAttacking /\ target # NoTarget /\ CooldownOver(me, time)
        THEN [(IF v = "current" THEN performAttackCurrent(us, id, target, roll)
               ELSE performAttackLegacy(us, id, target, roll))
                 EXCEPT ![id].lastAttackTime = time]
        ELSE us

\* update, third block (part_000:334-347, BaseUnit.ts:232-245): combat
combatStep(v, us, id, time, roll) ==
    LET me == us[id]
        target == me.currentTarget
    IN  IF me.isAttacking /\ target # NoTarget /\ CooldownOver(me, time)
        THEN IF isInRange(me, us[target])
             THEN [(IF v = "current" THEN performAttackCurrent(us, id, target, roll)
                    ELSE performAttackLegacy(us, id, target, roll))
                      EXCEPT ![id].lastAttackTime = time]
             ELSE [us EXCEPT ![id] = moveTo(me, getPosition(us[target]))]
        ELSE us

\* the part of update that a live unit runs (part_000:321-347,
\* BaseUnit.ts:219-245): the three blocks one after the other, each on the
\* outcome of the one before
updateAlive(v, us, chs, id, time, delta, offset, roll) ==
    The({combatStep(v, moved, id, time, roll) :
            moved \in {movementStep(v, searched, chs, id, delta) :
                searched \in {searchStep(v, us, chs, id, time, offset, roll)}}})

\* faulty update: a dead unit with a death time removes itself without waiting
updateCurrentNoGrace(us, chs, id, time, delta, offset, roll) ==
    IF us[id].isDead
    THEN IF us[id].deathTime = NoTime
         THEN [units |-> [us EXCEPT ![id].deathTime = time], children |-> chs]
         ELSE [units |-> us, children |-> removeChild(chs, id)]
    ELSE [units |-> updateAlive("current", us, chs, id, time, delta, offset, roll),
          children |-> chs]

\* faulty update: a dead unit is never removed
updateCurrentKeepsCorpse(us, chs, id, time, delta, offset, roll) ==
    IF us[id].isDead
    THEN IF us[id].deathTime = NoTime
         THEN [units |-> [us EXCEPT ![id].deathTime = time], children |-> chs]
         ELSE [units |-> us, children |-> chs]
    ELSE [units |-> updateAlive("current", us, chs, id, time, delta, offset, roll),
          children |-> chs]

\* faulty update: a dead unit runs the blocks of a live one
updateCurrentDeadActs(us, chs, id, time, delta, offset, roll) ==
    [units |-> updateAlive("current", us, chs, id, time, delta, offset, roll),
     children |-> chs]

\* part_000:309-351.  A dead unit records its death time on its first update
\* and removes itself from its parent once DEATH_DELAY has passed.
updateCurrent(us, chs, id, time, delta, offset, roll) ==
    IF us[id].isDead
    THEN IF us[id].deathTime = NoTime
         THEN [units |-> [us EXCEPT ![id].deathTime = time], children |-> chs]
         ELSE IF time - us[id].deathTime >= DEATH_DELAY
         THEN [units |-> us, children |-> removeChild(chs, id)]
         ELSE [units |-> us, children |-> chs]
    ELSE [units |-> updateAlive("current", us, chs, id, time, delta, offset, roll),
          children |-> chs]

\* BaseUnit.ts:216-249: a dead unit does nothing and is never removed
updateLegacy(us, chs, id, time, delta, offset, roll) ==
    IF us[id].isDead
    THEN [units |-> us, children |-> chs]
    ELSE [units |-> updateAlive("legacy", us, chs, id, time, delta, offset, roll),
          children |-> chs]

update(v, us, chs, id, time, delta, offset, roll) ==
    IF v = "current" THEN updateCurrent(us, chs, id, time, delta, offset, roll)
    ELSE updateLegacy(us, chs, id, time, delta, offset, roll)

-----------------------------------------------------------------------------
(* The first build: BaseUnit.ts:406-629 driven by GameScreen.tsx:39-72 and
   253-278.  Units have the types Basic, Advanced and Special, no current
   target and no timers; the screen resolves collisions between them. *)

OldestTypes == {"Basic", "Advanced", "Special"}

\* units.ts:220-245; speed in hundredths of a pixel per second
BASE_UNIT_STATS_OLDEST(type) ==
    CASE type = "Basic"    -> [health |-> 100, maxHealth |-> 100, damage |-> 10,
                               speed |-> 200, range |-> 50]
      [] type = "Advanced" -> [health |-> 200, maxHealth |-> 200, damage |-> 20,
                               speed |-> 150, range |-> 75]
      [] type = "Special"  -> [health |-> 300, maxHealth |-> 300, damage |-> 30,
                               speed |-> 100, range |-> 100]

\* units.ts:248-265, in tenths; 0 stands for a field the entry does not have
FACTION_MODIFIERS_OLDEST(faction) ==
    CASE faction = "Netrunners" -> [health |-> 0,  damage |-> 0,  speed |-> 12, range |-> 12]
      [] faction = "Cyborgs"    -> [health |-> 12, damage |-> 11, speed |-> 0,  range |-> 0]
      [] faction = "Rogue AI"   -> [health |-> 0,  damage |-> 13, speed |-> 9,  range |-> 0]
      [] faction = "Megacorps"  -> [health |-> 11, damage |-> 0,  speed |-> 0,  range |-> 11]

\* BaseUnit.ts:434
radiusOldest == 10

\* BaseUnit.ts:422-463: the products are not rounded; the model keeps their
\* whole part.  The units have no attackSpeed.
constructorOldest(faction, type, position) ==
    LET baseStats == BASE_UNIT_STATS_OLDEST(type)
        modifiers == FACTION_MODIFIERS_OLDEST(faction)
        stats == [health      |-> (baseStats.health * OrOne(modifiers.health)) \div 10,
                  maxHealth   |-> (baseStats.maxHealth * OrOne(modifiers.health)) \div 10,
                  damage      |-> (baseStats.damage * OrOne(modifiers.damage)) \div 10,
                  speed       |-> (baseStats.speed * OrOne(modifiers.speed)) \div 10,
                  range       |-> (baseStats.range * OrOne(modifiers.range)) \div 10,
                  attackSpeed |-> 0]
    IN  NewUnit(faction, type, position, stats, FALSE, FALSE)

\* BaseUnit.ts:554-573, with the arithmetic of updateMovementCurrent
updateMovementOldest(u, delta) ==
    IF u.targetPosition = NoPoint THEN u
    ELSE LET dx == u.targetPosition[1] - u.position[1]
             dy == u.targetPosition[2] - u.position[2]
             distance == Length(dx, dy)
         IN  IF dx * dx + dy * dy < 1
             THEN [u EXCEPT !.isMoving = FALSE, !.targetPosition = NoPoint]
             ELSE [u EXCEPT !.position =
                      <<u.position[1] + TruncDiv(dx * u.stats.speed * delta, 100000 * distance),
                        u.position[2] + TruncDiv(dy * u.stats.speed * delta, 100000 * distance)>>]

\* BaseUnit.ts:543-552
updateOldest(u, delta) ==
    IF u.isDead THEN u
    ELSE IF u.isMoving /\ u.targetPosition # NoPoint THEN updateMovementOldest(u, delta)
    ELSE u

\* BaseUnit.ts:602-607; takeDamage (575-585) is the code of takeDamageLegacy
attackOldest(us, id, target) ==
    IF us[id].isDead \/ ~isInRange(us[id], us[target]) THEN us
    ELSE [us EXCEPT ![id].isAttacking = TRUE,
                    ![target] = takeDamageLegacy(us[target], us[id].stats.damage)]

\* GameScreen.tsx:39-45
checkCollision(unit1, unit2) ==
    SqDist(unit1.position, unit2.position)
        < (radiusOldest + radiusOldest) * (radiusOldest + radiusOldest)

\* faulty handleCollision: each unit is moved by the whole overlap
handleCollisionWholeOverlap(us, a, b) ==
    LET dx == us[b].position[1] - us[a].position[1]
        dy == us[b].position[2] - us[a].position[2]
        distance == Length(dx, dy)
        separationX == TruncDiv(dx * (radiusOldest + radiusOldest - distance), distance)
        separationY == TruncDiv(dy * (radiusOldest + radiusOldest - distance), distance)
    IN  IF us[a].faction # us[b].faction
        THEN attackOldest(attackOldest(us, a, b), b, a)
        ELSE IF dx * dx + dy * dy = 0 THEN us
        ELSE [us EXCEPT
                ![a].position = <<@[1] - separationX, @[2] - separationY>>,
                ![b].position = <<@[1] + separationX, @[2] + separationY>>]

\* GameScreen.tsx:48-72: units of two factions strike each other, units of
\* one faction are moved apart by half the overlap each.  The separation
\* vector (dx / distance) * overlap is cut to whole pixels.
handleCollision(us, a, b) ==
    LET dx == us[b].position[1] - us[a].position[1]
        dy == us[b].position[2] - us[a].position[2]
        distance == Length(dx, dy)
        separationX == TruncDiv(dx * (radiusOldest + radiusOldest - distance), 2 * distance)
        separationY == TruncDiv(dy * (radiusOldest + radiusOldest - distance), 2 * distance)
    IN  IF us[a].faction # us[b].faction
        THEN attackOldest(attackOldest(us, a, b), b, a)
        ELSE IF dx * dx + dy * dy = 0 THEN us
        ELSE [us EXCEPT
                ![a].position = <<@[1] - separationX, @[2] - separationY>>,
                ![b].position = <<@[1] + separationX, @[2] + separationY>>]

\* GameScreen.tsx:260-266: the inner loop of the ticker callback from its
\* j-th unit on; `hits` lists the calls of handleCollision made in the frame
RECURSIVE checkCollisions(_, _, _, _, _)
checkCollisions(us, chs, id, j, hits) ==
    IF j > Len(chs) THEN [units |-> us, hits |-> hits]
    ELSE IF chs[j] # id /\ isAlive(us[chs[j]]) /\ checkCollision(us[id], us[chs[j]])
    THEN checkCollisions(handleCollision(us, id, chs[j]), chs, id, j + 1,
                         Append(hits, <<id, chs[j]>>))
    ELSE checkCollisions(us, chs, id, j + 1, hits)

\* GameScreen.tsx:255-268: one turn of the outer loop.  update is handed
\* (delta / 60) * 20, twenty times the seconds that passed.
collisionTurn(us, chs, id, delta, hits) ==
    IF isAlive(us[id])
    THEN checkCollisions([us EXCEPT ![id] = updateOldest(@, delta * 20)], chs, id, 1, hits)
    ELSE [units |-> us, hits |-> hits]

\* GameScreen.tsx:75-108: the place a label stands for, to the whole pixel
cornerOffset == mapSize \div 10
spawnPositionOldest(position) ==
    CASE position = "N"  -> <<mapSize \div 2, cornerOffset>>
      [] position = "NE" -> <<mapSize - cornerOffset, cornerOffset>>
      [] position = "E"  -> <<mapSize - cornerOffset, mapSize - cornerOffset>>
      [] position = "SE" -> <<cornerOffset, mapSize - cornerOffset>>
      [] OTHER           -> <<cornerOffset, cornerOffset>>

\* GameScreen.tsx:114
centerPoint == <<mapSize \div 2, mapSize \div 2>>

-----------------------------------------------------------------------------
(* Inputs of the environment *)

\* what GameScreen.spawnUnit is called with in a battle: a unit outside the
\* objective, an enemy 12 px from it, an archer on the far side and a warrior
\* next to the archer
SpawnCalls ==
    {[type |-> "Warrior", position |-> "N", faction |-> "Netrunners", randomRadius |-> 82],
     [type |-> "Warrior", position |-> "N", faction |-> "Cyborgs",    randomRadius |-> 70],
     [type |-> "Archer",  position |-> "S", faction |-> "Cyborgs",    randomRadius |-> 70],
     [type |-> "Warrior", position |-> "S", faction |-> "Netrunners", randomRadius |-> 70]}

\* and in the runs that call takeDamage and heal from outside
InterfaceSpawnCalls ==
    {[type |-> "Warrior", position |-> "N", faction |-> "Netrunners", randomRadius |-> 70],
     [type |-> "Archer",  position |-> "S", faction |-> "Cyborgs",    randomRadius |-> 70]}

\* amounts takeDamage and heal are called with through the public interface
Amounts == {0, 60, 500}

\* wall-clock time between two frames, ms, and the delta handed to update, ms
\* (part_008:266 hands over delta / 60 seconds)
ElapsedMs == {500, 1000}
Deltas == {100}

-----------------------------------------------------------------------------
(* State machine *)

NotBuilt ==
    [ok |-> FALSE, error |-> "not called",
     unit |-> NewUnit("Netrunners", "Warrior", <<0, 0>>, NaNStats, FALSE, FALSE)]

Idle == [active |-> FALSE, idx |-> 0, delta |-> 0, start |-> <<>>, done |-> <<>>,
         was |-> <<>>, hits |-> <<>>]

NoCall == [op |-> "none", id |-> 0, amount |-> 0, health |-> 0, dead |-> FALSE,
           target |-> NoTarget, point |-> NoPoint]

Called(op, id, amount) ==
    [op |-> op, id |-> id, amount |-> amount,
     health |-> units[id].currentHealth, dead |-> units[id].isDead,
     target |-> NoTarget, point |-> NoPoint]

\* the same for unit.attack(target) and unit.moveTo(point)
Ordered(op, id, target, point) ==
    [op |-> op, id |-> id, amount |-> 0,
     health |-> units[id].currentHealth, dead |-> units[id].isDead,
     target |-> target, point |-> point]

Init ==
    /\ variant \in Variants
    /\ units = <<>>
    /\ children = <<>>
    /\ frame = Idle
    /\ built = NotBuilt
    /\ calls = 0
    /\ lastCall = NoCall

UnitIds == DOMAIN units

\* `new BaseUnit(faction, type, position, playerIndex)` called directly
Construct(faction, type, position) ==
    /\ built' = constructor(variant, faction, type, position)
    /\ UNCHANGED <<variant, units, children, frame, calls, lastCall>>

\* GameScreen.spawnUnit -> UnitSpawner.spawnUnit (part_008:283-300,
\* part_001:48-67): a throwing constructor adds nothing.  `most` is the number
\* of units the run stops spawning at.
SpawnUpTo(most, type, position, faction, randomRadius) ==
    /\ ~frame.active
    /\ Cardinality(UnitIds) < most
    /\ LET made == constructor(variant, faction, type,
                               calculateSpawnPoint(position, randomRadius))
           id == Cardinality(UnitIds) + 1
       IN  IF made.ok
           THEN /\ units' = units @@ (id :> made.unit)
                /\ children' = Append(children, id)
           ELSE UNCHANGED <<units, children>>
    /\ UNCHANGED <<variant, frame, built, calls, lastCall>>

SpawnUnit(type, position, faction, randomRadius) ==
    SpawnUpTo(MaxUnits, type, position, faction, randomRadius)

\* the same call with the draw of the angle told
SpawnUnitAt(type, position, faction, randomRadius, draw) ==
    /\ ~frame.active
    /\ Cardinality(UnitIds) < MaxUnits
    /\ LET made == constructor(variant, faction, type,
                               calculateSpawnPointAt(position, randomRadius, draw))
           id == Cardinality(UnitIds) + 1
       IN  IF made.ok
           THEN /\ units' = units @@ (id :> made.unit)
                /\ children' = Append(children, id)
           ELSE UNCHANGED <<units, children>>
    /\ UNCHANGED <<variant, frame, built, calls, lastCall>>

\* the setTimeout callback of the constructor (part_000:139-155)
DelayedMove(id, offset) ==
    /\ ~frame.active
    /\ id \in UnitIds
    /\ units[id].timer
    /\ units' = [units EXCEPT ![id] =
                    IF InContainer(children, id)
                    THEN [moveTo(@, <<controlPoint[1] + offset[1],
                                      controlPoint[2] + offset[2]>>)
                             EXCEPT !.timer = FALSE]
                    ELSE [@ EXCEPT !.timer = FALSE]]
    /\ UNCHANGED <<variant, children, frame, built, calls, lastCall>>

\* unit.takeDamage(amount) through the public interface
TakeDamage(id, amount) ==
    /\ ~frame.active
    /\ id \in UnitIds
    /\ calls < MaxCalls
    /\ units' = [units EXCEPT ![id] = takeDamage(variant, @, amount)]
    /\ calls' = calls + 1
    /\ lastCall' = Called("takeDamage", id, amount)
    /\ UNCHANGED <<variant, children, frame, built>>

\* unit.heal(amount) through the public interface
Heal(id, amount) ==
    /\ ~frame.active
    /\ id \in UnitIds
    /\ calls < MaxCalls
    /\ units' = [units EXCEPT ![id] = heal(@, amount)]
    /\ calls' = calls + 1
    /\ lastCall' = Called("heal", id, amount)
    /\ UNCHANGED <<variant, children, frame, built>>

\* unit.moveTo(point) through the public interface
MoveTo(id, point) ==
    /\ ~frame.active
    /\ id \in UnitIds
    /\ calls < MaxCalls
    /\ units' = [units EXCEPT ![id] = moveTo(@, point)]
    /\ calls' = calls + 1
    /\ lastCall' = Ordered("moveTo", id, NoTarget, point)
    /\ UNCHANGED <<variant, children, frame, built>>

\* unit.attack(target) through the public interface
Attack(id, target, roll) ==
    /\ ~frame.active
    /\ id \in UnitIds
    /\ target \in UnitIds
    /\ target # id
    /\ calls < MaxCalls
    /\ units' = attack(variant, units, id, target, now, roll)
    /\ calls' = calls + 1
    /\ lastCall' = Ordered("attack", id, target, NoPoint)
    /\ UNCHANGED <<variant, children, frame, built>>

\* a stored timestamp after the time origin has moved by `by`; 0 (never) and
\* null stay.  An age is told apart up to `horizon`, the interval the code
\* compares it with.
Shift(ts, by, horizon) == IF ts <= 0 THEN ts ELSE Max(ts - by, now - horizon)

\* The ticker fires: `elapsed` ms have passed since the last frame
TickerFrame(elapsed, delta) ==
    /\ ~frame.active
    /\ units' = [id \in UnitIds |->
                   [units[id] EXCEPT
                      !.lastAttackTime = Shift(@, elapsed, CooldownMs(units[id])),
                      !.lastTargetSearchTime = Shift(@, elapsed, TARGET_SEARCH_INTERVAL),
                      !.deathTime = Shift(@, elapsed, DEATH_DELAY)]]
    /\ frame' = [active |-> TRUE, idx |-> 1, delta |-> delta,
                 start |-> children, done |-> <<>>, was |-> units', hits |-> <<>>]
    /\ lastCall' = NoCall
    /\ UNCHANGED <<variant, children, built, calls>>

\* one turn of `for (const unit of children) unit.update(deltaSeconds)`
UpdateNext(offset, roll) ==
    /\ frame.active
    /\ frame.idx <= Len(children)
    /\ \E r \in {update(variant, units, children, children[frame.idx], now,
                       frame.delta, offset, roll)} :
           /\ units' = r.units
           /\ children' = r.children
    /\ frame' = [frame EXCEPT !.idx = @ + 1,
                              !.done = Append(@, children[frame.idx])]
    /\ UNCHANGED <<variant, built, calls, lastCall>>

\* the loop is past the last child: the callback returns
FrameEnd ==
    /\ frame.active
    /\ frame.idx > Len(children)
    /\ frame' = Idle
    /\ UNCHANGED <<variant, units, children, built, calls, lastCall>>

\* the game as it runs: spawns, timers and frames
Next ==
    \/ \E c \in SpawnCalls : SpawnUnit(c.type, c.position, c.faction, c.randomRadius)
    \/ \E id \in UnitIds, o \in Offsets : DelayedMove(id, o)
    \/ \E e \in ElapsedMs, d \in Deltas : TickerFrame(e, d)
    \/ \E o \in Offsets, r \in Rolls : UpdateNext(o, r)
    \/ FrameEnd

Spec == Init /\ [][Next]_vars

\* the same with takeDamage and heal called from outside between frames
NextCalls ==
    \/ \E c \in InterfaceSpawnCalls :
          SpawnUnit(c.type, c.position, c.faction, c.randomRadius)
    \/ \E id \in UnitIds, o \in Offsets : DelayedMove(id, o)
    \/ \E id \in UnitIds, a \in Amounts : TakeDamage(id, a)
    \/ \E id \in UnitIds, a \in Amounts : Heal(id, a)
    \/ \E e \in ElapsedMs, d \in Deltas : TickerFrame(e, d)
    \/ \E o \in Offsets, r \in Rolls : UpdateNext(o, r)
    \/ FrameEnd

SpecCalls == Init /\ [][NextCalls]_vars

\* Scheduling.  The ticker keeps calling back, the loop of a frame takes its next
\* turn and returns at its end, and a pending timer fires.  The fairness of the
\* loop's turns is weak fairness of UpdateNext, written out: a turn is enabled
\* exactly when UpdatePending holds, and it is the only step that advances
\* frame.idx.
Ticks == \E e \in ElapsedMs, d \in Deltas : TickerFrame(e, d)

Timers == \E id \in UnitIds, o \in Offsets : DelayedMove(id, o)

UpdatePending == frame.active /\ frame.idx <= Len(children)

UpdateStep == frame.active /\ frame'.active /\ frame'.idx = frame.idx + 1

SpecFair ==
    /\ Init /\ [][Next]_vars
    /\ WF_vars(Ticks) /\ WF_vars(FrameEnd) /\ WF_vars(Timers)
    /\ ([]<>(~UpdatePending) \/ []<><<UpdateStep>>_vars)

\* constructor calls alone, with every type and faction
NextBuild ==
    \E f \in AllFactions, t \in AllTypes, p \in Sectors, r \in RadiusDraws :
        Construct(f, t, calculateSpawnPoint(p, r))

SpecBuild == Init /\ [][NextBuild]_vars

\* the public orders moveTo and attack, and a lethal takeDamage, called from
\* outside between frames
LethalAmounts == {a \in Amounts : a >= 500}

\* points moveTo is called with: two pixels east of the northern spawn point
MarchPoints == {<<calculateSpawnPoint("N", 70)[1] + 2, calculateSpawnPoint("N", 70)[2]>>}

NextOrders ==
    \/ \E c \in InterfaceSpawnCalls :
          SpawnUnit(c.type, c.position, c.faction, c.randomRadius)
    \/ \E id \in UnitIds, o \in Offsets : DelayedMove(id, o)
    \/ \E id \in UnitIds, a \in LethalAmounts : TakeDamage(id, a)
    \/ \E id \in UnitIds, p \in MarchPoints : MoveTo(id, p)
    \/ \E id \in UnitIds, t \in UnitIds, r \in Rolls : Attack(id, t, r)
    \/ \E e \in ElapsedMs, d \in Deltas : TickerFrame(e, d)
    \/ \E o \in Offsets, r \in Rolls : UpdateNext(o, r)
    \/ FrameEnd

SpecOrders == Init /\ [][NextOrders]_vars

\* frames that come faster than the target search interval, with moveTo called
\* from outside
MarchElapsedMs == {100, 500}

\* units of one faction, so that nothing but the targeting policy and the
\* movement step acts on them
MarchSpawnCalls ==
    {[type |-> "Warrior", position |-> "N", faction |-> "Netrunners", randomRadius |-> 70],
     [type |-> "Warrior", position |-> "S", faction |-> "Netrunners", randomRadius |-> 70]}

NextMarch ==
    \/ \E c \in MarchSpawnCalls :
          SpawnUnit(c.type, c.position, c.faction, c.randomRadius)
    \/ \E id \in UnitIds, o \in Offsets : DelayedMove(id, o)
    \/ \E id \in UnitIds, p \in MarchPoints : MoveTo(id, p)
    \/ \E e \in MarchElapsedMs, d \in Deltas : TickerFrame(e, d)
    \/ \E o \in Offsets, r \in Rolls : UpdateNext(o, r)
    \/ FrameEnd

SpecMarch == Init /\ [][NextMarch]_vars

\* a skirmish next to the objective's edge: a warrior outside the objective,
\* an enemy 10 px from it and inside, a warrior 10 px farther in, a comrade of
\* the enemy at the same place, and an archer 150 px from the first
DuelSpawnCalls ==
    {[type |-> "Warrior", position |-> "N", faction |-> "Netrunners", randomRadius |-> 82],
     [type |-> "Warrior", position |-> "N", faction |-> "Cyborgs",    randomRadius |-> 72],
     [type |-> "Warrior", position |-> "N", faction |-> "Netrunners", randomRadius |-> 62],
     [type |-> "Warrior", position |-> "N", faction |-> "Cyborgs",    randomRadius |-> 62],
     [type |-> "Archer",  position |-> "S", faction |-> "Cyborgs",    randomRadius |-> 68]}

NextDuel ==
    \/ \E c \in DuelSpawnCalls : SpawnUnit(c.type, c.position, c.faction, c.randomRadius)
    \/ \E id \in UnitIds, o \in Offsets : DelayedMove(id, o)
    \/ \E e \in ElapsedMs, d \in Deltas : TickerFrame(e, d)
    \/ \E o \in Offsets, r \in Rolls : UpdateNext(o, r)
    \/ FrameEnd

SpecDuel == Init /\ [][NextDuel]_vars

\* the spawn calls of a skirmish, in the order they are made: an archer and
\* two enemies in its band of preferred distances, a warrior 150 px from it and
\* then one 130 px from it
SkirmishSpawnCalls ==
    <<[type |-> "Archer",  position |-> "S", faction |-> "Cyborgs",    randomRadius |-> 68],
      [type |-> "Warrior", position |-> "N", faction |-> "Netrunners", randomRadius |-> 82],
      [type |-> "Warrior", position |-> "N", faction |-> "Netrunners", randomRadius |-> 62]>>

NextSkirmish ==
    \/ \E k \in 1..Len(SkirmishSpawnCalls) :
          /\ k = Cardinality(UnitIds) + 1
          /\ SpawnUpTo(Len(SkirmishSpawnCalls), SkirmishSpawnCalls[k].type,
                       SkirmishSpawnCalls[k].position, SkirmishSpawnCalls[k].faction,
                       SkirmishSpawnCalls[k].randomRadius)
    \/ \E id \in UnitIds, o \in Offsets : DelayedMove(id, o)
    \/ \E e \in ElapsedMs, d \in Deltas : TickerFrame(e, d)
    \/ \E o \in Offsets, r \in Rolls : UpdateNext(o, r)
    \/ FrameEnd

SpecSkirmish == Init /\ [][NextSkirmish]_vars

\* the spawn calls of a melee, in the order they are made: a warrior and two
\* enemy warriors, one 10 px on either side of it, all inside the objective
MeleeSpawnCalls ==
    <<[type |-> "Warrior", position |-> "N", faction |-> "Cyborgs",    randomRadius |-> 70],
      [type |-> "Warrior", position |-> "N", faction |-> "Netrunners", randomRadius |-> 80],
      [type |-> "Warrior", position |-> "N", faction |-> "Netrunners", randomRadius |-> 60]>>

NextMelee ==
    \/ \E k \in 1..Len(MeleeSpawnCalls) :
          /\ k = Cardinality(UnitIds) + 1
          /\ SpawnUpTo(Len(MeleeSpawnCalls), MeleeSpawnCalls[k].type,
                       MeleeSpawnCalls[k].position, MeleeSpawnCalls[k].faction,
                       MeleeSpawnCalls[k].randomRadius)
    \/ \E id \in UnitIds, o \in Offsets : DelayedMove(id, o)
    \/ \E e \in ElapsedMs, d \in Deltas : TickerFrame(e, d)
    \/ \E o \in Offsets, r \in Rolls : UpdateNext(o, r)
    \/ FrameEnd

SpecMelee == Init /\ [][NextMelee]_vars

\* every operation of a unit called from outside between frames: takeDamage,
\* heal, moveTo and attack
NextLife ==
    \/ \E c \in InterfaceSpawnCalls :
          SpawnUnit(c.type, c.position, c.faction, c.randomRadius)
    \/ \E id \in UnitIds, o \in Offsets : DelayedMove(id, o)
    \/ \E id \in UnitIds, a \in Amounts : TakeDamage(id, a)
    \/ \E id \in UnitIds, a \in Amounts : Heal(id, a)
    \/ \E id \in UnitIds, p \in MarchPoints : MoveTo(id, p)
    \/ \E id \in UnitIds, t \in UnitIds, r \in Rolls : Attack(id, t, r)
    \/ \E e \in ElapsedMs, d \in Deltas : TickerFrame(e, d)
    \/ \E o \in Offsets, r \in Rolls : UpdateNext(o, r)
    \/ FrameEnd

SpecLife == Init /\ [][NextLife]_vars

\* units spawned at every label of the octagon
SpawnerTypes == {"Warrior", "Archer"}

NextSpawner ==
    \E t \in SpawnerTypes, i \in 1..8, r \in RadiusDraws, d \in AngleDraws :
        SpawnUnitAt(t, OctagonPositions[i], "Netrunners", r, d)

SpecSpawner == Init /\ [][NextSpawner]_vars

\* The first build.  Every unit is created with playerFactions[0]
\* (GameScreen.tsx:111), so all units of a run share one faction.
OldestFactions == {"Cyborgs", "Megacorps"}
OldestSectors == {"N", "NE"}

InitOldest ==
    /\ variant = "oldest"
    /\ units = <<>>
    /\ children = <<>>
    /\ frame = Idle
    /\ built = NotBuilt
    /\ calls = 0
    /\ lastCall = NoCall

\* GameScreen.tsx:75-132
SpawnOldest(type, position, faction) ==
    /\ ~frame.active
    /\ Cardinality(UnitIds) < MaxUnits
    /\ \A id \in UnitIds : units[id].faction = faction
    /\ LET id == Cardinality(UnitIds) + 1
           unit == constructorOldest(faction, type, spawnPositionOldest(position))
       IN  /\ units' = units @@ (id :> moveTo(unit, centerPoint))
           /\ children' = Append(children, id)
    /\ UNCHANGED <<variant, frame, built, calls, lastCall>>

\* GameScreen.tsx:253: the ticker fires
CollisionFrame(delta) ==
    /\ ~frame.active
    /\ frame' = [active |-> TRUE, idx |-> 1, delta |-> delta,
                 start |-> children, done |-> <<>>, was |-> units, hits |-> <<>>]
    /\ UNCHANGED <<variant, units, children, built, calls, lastCall>>

\* one turn of the outer forEach
CollisionTurn ==
    /\ frame.active
    /\ frame.idx <= Len(children)
    /\ \E r \in {collisionTurn(units, children, children[frame.idx], frame.delta,
                                frame.hits)} :
           /\ units' = r.units
           /\ frame' = [frame EXCEPT !.idx = @ + 1,
                                     !.done = Append(@, children[frame.idx]),
                                     !.hits = r.hits]
    /\ UNCHANGED <<variant, children, built, calls, lastCall>>

\* GameScreen.tsx:270-277: the dead are dropped and the callback returns
CollisionFrameEnd ==
    /\ frame.active
    /\ frame.idx > Len(children)
    /\ children' = SelectSeq(children, LAMBDA id : isAlive(units[id]))
    /\ frame' = Idle
    /\ UNCHANGED <<variant, units, built, calls, lastCall>>

NextOldest ==
    \/ \E t \in OldestTypes, p \in OldestSectors, f \in OldestFactions : SpawnOldest(t, p, f)
    \/ \E d \in Deltas : CollisionFrame(d)
    \/ CollisionTurn
    \/ CollisionFrameEnd

SpecOldest == InitOldest /\ [][NextOldest]_vars

\* handleCollision on its own: two units of one faction, the second at an
\* offset from the first for which the separation vector is a whole number of
\* pixels, or apart, or at the same place
CollideOffsets ==
    {<<2, 0>>, <<0, 4>>, <<-8, 0>>, <<12, 0>>, <<0, -14>>, <<16, 0>>, <<18, 0>>,
     <<6, 8>>, <<-6, -8>>, <<8, -6>>, <<-8, 6>>, <<0, -10>>,
     <<0, 0>>, <<20, 0>>, <<12, 16>>, <<0, 24>>}

CollidePlaces == {centerPoint, spawnPositionOldest("N")}

InitCollide ==
    /\ variant = "oldest"
    /\ \E f \in OldestFactions, t1 \in OldestTypes, t2 \in OldestTypes,
          p \in CollidePlaces, o \in CollideOffsets :
          units = <<moveTo(constructorOldest(f, t1, p), centerPoint),
                    moveTo(constructorOldest(f, t2, <<p[1] + o[1], p[2] + o[2]>>),
                           centerPoint)>>
    /\ children = <<1, 2>>
    /\ frame = Idle
    /\ built = NotBuilt
    /\ calls = 0
    /\ lastCall = NoCall

\* GameScreen.tsx:261-265 for one pair of units
Collide(a, b) ==
    /\ a # b
    /\ isAlive(units[a]) /\ isAlive(units[b])
    /\ checkCollision(units[a], units[b])
    /\ units' = handleCollision(units, a, b)
    /\ lastCall' = Ordered("handleCollision", a, b, NoPoint)
    /\ UNCHANGED <<variant, children, frame, built, calls>>

NextCollide == \E a \in UnitIds, b \in UnitIds : Collide(a, b)

SpecCollide == InitCollide /\ [][NextCollide]_vars

-----------------------------------------------------------------------------
(* Properties *)

\* the unit a call from outside was made on
Callee == units[lastCall.id]

\* C1: after any sequence of takeDamage, heal and update calls every unit has
\* 0 <= current health <= maxHealth; heal never raises it above maxHealth.
HealthWithinBounds ==
    \A id \in UnitIds :
        /\ 0 <= getHealth(units[id])
        /\ getHealth(units[id]) <= units[id].stats.maxHealth

\* a heal that asked for more than the unit lacked has left it at maxHealth
HealCappedAtMax ==
    /\ lastCall.op = "heal"
    /\ ~lastCall.dead
    /\ lastCall.health < Callee.stats.maxHealth
    /\ lastCall.health + lastCall.amount > Callee.stats.maxHealth
    /\ getHealth(Callee) = Callee.stats.maxHealth

\* C2: takeDamage(amount) on a live unit leaves max(0, health - amount); no
\* step other than a heal raises a unit's health, and none makes it negative.
TakeDamageSubtracts ==
    [][/\ \A id \in UnitIds, a \in Amounts :
             (TakeDamage(id, a) /\ isAlive(units[id]))
                 => getHealth(units'[id]) = Max(0, getHealth(units[id]) - a)
       /\ \A id \in UnitIds :
             lastCall' = lastCall \/ lastCall'.op # "heal"
                 => /\ getHealth(units'[id]) <= getHealth(units[id])
                    /\ getHealth(units'[id]) >= 0]_vars

\* takeDamage has taken part of a live unit's health
DamagedAndAlive ==
    /\ lastCall.op = "takeDamage"
    /\ ~lastCall.dead
    /\ 0 < lastCall.amount
    /\ lastCall.amount < lastCall.health
    /\ getHealth(Callee) = lastCall.health - lastCall.amount
    /\ isAlive(Callee)

\* C3: once a unit is dead, a takeDamage or heal call changes neither its health
\* nor its dead flag.
DeadIgnoresCalls ==
    [][\A id \in UnitIds :
          (~isAlive(units[id]) /\ calls' # calls)
              => /\ getHealth(units'[id]) = getHealth(units[id])
                 /\ ~isAlive(units'[id])]_vars

\* takeDamage was called with a positive amount on a unit that was dead, in the
\* build whose takeDamage does not look at the flag
DamageCalledOnDead ==
    /\ variant = "current"
    /\ lastCall.op = "takeDamage"
    /\ lastCall.dead
    /\ lastCall.amount > 0
    /\ getHealth(Callee) = 0

\* C4: a unit is dead exactly when its current health is 0.
DeadIffNoHealth ==
    \A id \in UnitIds : ~isAlive(units[id]) <=> getHealth(units[id]) = 0

\* takeDamage with more than the health left has left 0 and a dead unit
OverkillLeavesZero ==
    /\ lastCall.op = "takeDamage"
    /\ ~lastCall.dead
    /\ lastCall.health < Callee.stats.maxHealth
    /\ lastCall.amount > lastCall.health
    /\ getHealth(Callee) = 0
    /\ ~isAlive(Callee)

\* what the last constructor call was given
ConstructorCalled == built.error # "not called"
BuiltType == built.unit.type
BuiltFaction == built.unit.faction

\* the multipliers the specification names for a faction: the registered ones,
\* else the neutral 1.0
MultipliersFor(faction) ==
    IF HasModifiers(faction) THEN FACTION_MODIFIERS(faction) ELSE defaultModifiers

\* C5: a constructed unit of a type of the table has health = maxHealth =
\* round(base health x multiplier), damage and range round(base x multiplier),
\* the base attackSpeed, and starts at full health.
ConstructedStats ==
    (ConstructorCalled /\ built.ok /\ HasBaseStats(BuiltType)) =>
        LET base == BASE_UNIT_STATS(BuiltType)
            m == MultipliersFor(BuiltFaction)
            stats == built.unit.stats
        IN  /\ stats.health = Round(base.health * m.health, 10)
            /\ stats.maxHealth = stats.health
            /\ stats.damage = Round(base.damage * m.damage, 10)
            /\ stats.range = Round(base.range * m.range, 10)
            /\ stats.attackSpeed = base.attackSpeed
            /\ built.unit.currentHealth = stats.maxHealth

\* a Netrunners Warrior was built with 150 / 150 / 65 / 30
NetrunnersWarriorBuilt ==
    /\ built.ok
    /\ BuiltFaction = "Netrunners" /\ BuiltType = "Warrior"
    /\ built.unit.stats.health = 150 /\ built.unit.stats.maxHealth = 150
    /\ built.unit.stats.damage = 65 /\ built.unit.stats.range = 30
    /\ built.unit.currentHealth = 150

\* C6: a constructor call with a type that has no base stats fails and yields
\* no unit.
UnknownTypeRejected ==
    (ConstructorCalled /\ ~HasBaseStats(BuiltType)) => ~built.ok

\* C7: a constructor call with a faction that has no multipliers succeeds, and
\* the unit's stats are the base stats of its type.
UnregisteredFactionNeutral ==
    (ConstructorCalled /\ ~HasModifiers(BuiltFaction) /\ HasBaseStats(BuiltType)) =>
        LET base == BASE_UNIT_STATS(BuiltType)
            stats == built.unit.stats
        IN  /\ built.ok
            /\ stats.health = base.health /\ stats.maxHealth = base.maxHealth
            /\ stats.damage = base.damage /\ stats.range = base.range
            /\ stats.speed = base.speed /\ stats.attackSpeed = base.attackSpeed

\* this step is children[frame.idx].update(...) and that child is `id`
Updating(id) ==
    /\ frame.active
    /\ frame.idx <= Len(children)
    /\ children[frame.idx] = id
    /\ frame'.active
    /\ frame'.idx = frame.idx + 1

\* ms since the recorded death
DeadFor(u) == now - u.deathTime

\* C8 (the build with the death delay): the death time is recorded by the first
\* update of the dead unit and only there, once recorded it is never reset (the
\* time since it only grows), and a unit leaves the container only in its own
\* update with at least DEATH_DELAY ms since the recorded death.
GraceDelayKept ==
    [][\A id \in UnitIds :
          LET u == units[id]
              v == units'[id]
          IN  /\ (u.deathTime = NoTime /\ v.deathTime # NoTime)
                     => (Updating(id) /\ ~isAlive(u) /\ v.deathTime = now)
              /\ (variant = "current" /\ Updating(id) /\ ~isAlive(u)
                       /\ u.deathTime = NoTime)
                     => (v.deathTime = now /\ InContainer(children', id))
              /\ u.deathTime # NoTime
                     => (v.deathTime # NoTime /\ DeadFor(v) >= DeadFor(u))
              /\ (InContainer(children, id) /\ ~InContainer(children', id))
                     => /\ Updating(id)
                        /\ ~isAlive(u)
                        /\ u.deathTime # NoTime
                        /\ DeadFor(u) >= DEATH_DELAY]_vars

\* a unit killed in battle has been removed, DEATH_DELAY after its recorded death
RemovedAfterGrace ==
    \E id \in UnitIds :
        /\ ~isAlive(units[id])
        /\ ~InContainer(children, id)
        /\ units[id].deathTime # NoTime
        /\ DeadFor(units[id]) >= DEATH_DELAY

\* C9 (the build with the death delay): while frames keep running, a unit whose
\* health has reached 0 is eventually out of the container.
CorpseRemoved ==
    \A id \in 1..MaxUnits :
        (variant = "current" /\ id \in UnitIds /\ getHealth(units[id]) = 0)
            ~> (id \in UnitIds /\ ~InContainer(children, id))

\* a unit with health 0 is out of the container while an enemy of it lives on
CorpseGoneEnemyAlive ==
    \E id \in UnitIds, other \in UnitIds :
        /\ variant = "current"
        /\ getHealth(units[id]) = 0
        /\ ~InContainer(children, id)
        /\ isAlive(units[other])
        /\ units[other].faction # units[id].faction

\* factions with a live unit in the container
LiveFactions ==
    {units[id].faction : id \in {i \in UnitIds : isAlive(units[i]) /\ InContainer(children, i)}}

\* C10: once no more units are spawned, a battle between two or more factions
\* eventually leaves at most one faction with live units.
BattleEnds ==
    (variant = "current" /\ Cardinality(UnitIds) = MaxUnits
        /\ Cardinality(LiveFactions) >= 2)
        ~> (Cardinality(LiveFactions) <= 1)

\* how often update was called on `id` in the pass in progress
TimesUpdated(id) == Cardinality({j \in 1..Len(frame.done) : frame.done[j] = id})

\* C18: when the driver's loop of a frame has ended, update has been called
\* exactly once on every unit that was in the collection when the frame began,
\* also in a frame in which a dead unit's grace delay expires.
EveryUnitUpdatedOnce ==
    (frame.active /\ frame.idx > Len(children)) =>
        \A i \in 1..Len(frame.start) : TimesUpdated(frame.start[i]) = 1

\* C19: the collection is not modified while the driver's loop of a frame is
\* going over it; units are added and removed only between frames.
CollectionFixedInPass ==
    [][frame.active => children' = children]_vars

\* C14: attack(target) called with a target farther away than the attacker's
\* range is rejected: the caller's currentTarget and isAttacking flag stay as
\* they were and the target's health is not touched.
AttackOutOfRangeRejected ==
    [][\A id \in UnitIds, t \in UnitIds, r \in Rolls :
          (Attack(id, t, r) /\ ~isInRange(units[id], units[t]))
              => /\ units'[id].currentTarget = units[id].currentTarget
                 /\ units'[id].isAttacking = units[id].isAttacking
                 /\ getHealth(units'[t]) = getHealth(units[t])]_vars

\* C15: nothing changes the targetPosition, isMoving, currentTarget or
\* isAttacking of a dead unit: moveTo and attack called on it, and the
\* constructor's delayed move firing after its death, are no-ops.
DeadIgnoresOrders ==
    [][\A id \in UnitIds :
          ~isAlive(units[id])
              => /\ units'[id].targetPosition = units[id].targetPosition
                 /\ units'[id].isMoving = units[id].isMoving
                 /\ units'[id].currentTarget = units[id].currentTarget
                 /\ units'[id].isAttacking = units[id].isAttacking]_vars

\* the targeting policy runs in the unit's next update
SearchDue(u) == now - u.lastTargetSearchTime >= TARGET_SEARCH_INTERVAL

\* MIN_SEPARATION + r1 + r2 of the build
separationDistance(v) ==
    IF v = "current" THEN MIN_SEPARATION + radius(v) + radius(v)
    ELSE MIN_SEPARATION_LEGACY + radius(v) + radius(v)

\* no other live unit of the container is within the separation distance
NoNeighbours(id) ==
    \A other \in UnitIds \ {id} :
        (isAlive(units[other]) /\ InContainer(children, other))
            => SqDist(units[id].position, units[other].position)
                   >= separationDistance(variant) * separationDistance(variant)

\* C12 as stated: every update tick of a live unit without neighbours that has
\* a movement target at distance >= 1 ends with the unit strictly nearer to
\* it; with the target nearer than 1 the tick unsets targetPosition, clears
\* isMoving and leaves the position.
MovementApproachesEveryTick ==
    [][\A id \in UnitIds :
          LET u == units[id]
              v == units'[id]
              T == u.targetPosition
          IN  (Updating(id) /\ isAlive(u) /\ NoNeighbours(id) /\ T # NoPoint)
                  => IF SqDist(u.position, T) >= 1
                     THEN SqDist(v.position, T) < SqDist(u.position, T)
                     ELSE /\ v.targetPosition = NoPoint
                          /\ ~v.isMoving
                          /\ v.position = u.position]_vars

\* C12, amended: the same for the update ticks in which the targeting policy
\* does not run, of a unit that is not attacking; the target is then also left
\* as it is until the unit is within 1 of it, and a unit without a movement
\* target stays where it is.
MovementApproaches ==
    [][\A id \in UnitIds :
          LET u == units[id]
              v == units'[id]
              T == u.targetPosition
          IN  (Updating(id) /\ isAlive(u) /\ NoNeighbours(id)
                  /\ ~SearchDue(u) /\ ~u.isAttacking)
                  => IF T = NoPoint
                     THEN v.position = u.position
                     ELSE IF SqDist(u.position, T) >= 1
                     THEN /\ SqDist(v.position, T) < SqDist(u.position, T)
                          /\ v.targetPosition = T
                     ELSE /\ v.targetPosition = NoPoint
                          /\ ~v.isMoving
                          /\ v.position = u.position]_vars

\* a unit has walked to the point moveTo named and halted there, in a tick in
\* which the targeting policy did not run
MarchArrived ==
    \E id \in UnitIds :
        /\ isAlive(units[id])
        /\ units[id].position \in MarchPoints
        /\ units[id].targetPosition = NoPoint
        /\ ~units[id].isMoving
        /\ units[id].lastTargetSearchTime < now
        /\ units[id].lastTargetSearchTime > now - TARGET_SEARCH_INTERVAL

\* the unit is inside the objective
InsideObjective(u) ==
    SqDist(u.position, controlPoint) <= CONTROL_POINT_RADIUS * CONTROL_POINT_RADIUS

\* a and b are live units of opposing factions in the container, 10 apart, each
\* with a range of at least 10, and b is the only live enemy a has there
FacingAtTen(a, b) ==
    /\ a # b
    /\ isAlive(units[a]) /\ isAlive(units[b])
    /\ InContainer(children, a) /\ InContainer(children, b)
    /\ units[a].faction # units[b].faction
    /\ SqDist(units[a].position, units[b].position) = 10 * 10
    /\ units[a].stats.range >= 10 /\ units[b].stats.range >= 10
    /\ \A c \in UnitIds \ {a, b} :
          ~(isAlive(units[c]) /\ InContainer(children, c)
              /\ units[c].faction # units[a].faction)

\* C11 as stated: when a unit facing a live enemy at distance 10 (both ranges
\* >= 10) runs a targeting-policy cycle, it is in the attacking state with that
\* enemy as its current target afterwards; so after each of the two has run
\* one, both are.
FacingUnitsEngage ==
    [][\A a \in UnitIds, b \in UnitIds :
          (Updating(a) /\ SearchDue(units[a]) /\ FacingAtTen(a, b))
              => /\ units'[a].isAttacking
                 /\ units'[a].currentTarget = b]_vars

\* C11, amended: the same for a unit that is inside the objective
FacingUnitsEngageInside ==
    [][\A a \in UnitIds, b \in UnitIds :
          (Updating(a) /\ SearchDue(units[a]) /\ FacingAtTen(a, b)
              /\ InsideObjective(units[a]))
              => /\ units'[a].isAttacking
                 /\ units'[a].currentTarget = b]_vars

\* two live enemies 10 apart, both inside the objective, have each run a
\* targeting cycle and are attacking each other
DuelJoined ==
    \E a \in UnitIds, b \in UnitIds :
        /\ FacingAtTen(a, b)
        /\ InsideObjective(units[a]) /\ InsideObjective(units[b])
        /\ units[a].lastTargetSearchTime # 0 /\ units[b].lastTargetSearchTime # 0
        /\ units[a].isAttacking /\ units[a].currentTarget = b
        /\ units[b].isAttacking /\ units[b].currentTarget = a

\* C13: of two live same-faction units of the container, at different places,
\* that have no movement target during a frame, a pair that began the frame
\* closer than MIN_SEPARATION + r1 + r2 ends it farther apart, and a pair that
\* began it at or above that distance ends it at the same distance.
SeparationRestored ==
    (frame.active /\ frame.idx > Len(children)) =>
        \A a \in DOMAIN frame.was, b \in DOMAIN frame.was :
            LET before == SqDist(frame.was[a].position, frame.was[b].position)
                after == SqDist(units[a].position, units[b].position)
            IN  (/\ a # b
                 /\ before > 0
                 /\ InContainer(frame.start, a) /\ InContainer(frame.start, b)
                 /\ isAlive(frame.was[a]) /\ isAlive(frame.was[b])
                 /\ frame.was[a].faction = frame.was[b].faction
                 /\ frame.was[a].targetPosition = NoPoint
                 /\ frame.was[b].targetPosition = NoPoint
                 /\ units[a].targetPosition = NoPoint
                 /\ units[b].targetPosition = NoPoint)
                    => IF before < separationDistance(variant) * separationDistance(variant)
                       THEN after > before
                       ELSE after = before

\* the distance between the centres of a and b is at most n
DistanceAtMost(a, b, n) ==
    \E m \in 0..n : m * m >= SqDist(units[a].position, units[b].position)

\* C16: isInRange(target) is true exactly when the distance between the two
\* centres is at most the unit's range, the boundary included, and for two
\* units of equal range it gives the same answer both ways.
InRangeIsDistance ==
    \A a \in UnitIds, b \in UnitIds :
        /\ isInRange(units[a], units[b])
               <=> DistanceAtMost(a, b, units[a].stats.range)
        /\ units[a].stats.range = units[b].stats.range
               => (isInRange(units[a], units[b]) <=> isInRange(units[b], units[a]))

\* an archer attacks a warrior that stands exactly its range away, and the
\* warrior, whose range is shorter, does not have the archer in range
InRangeOneWay ==
    \E a \in UnitIds, b \in UnitIds :
        /\ SqDist(units[a].position, units[b].position)
               = units[a].stats.range * units[a].stats.range
        /\ units[a].stats.range # units[b].stats.range
        /\ isInRange(units[a], units[b])
        /\ ~isInRange(units[b], units[a])
        /\ units[a].isAttacking /\ units[a].currentTarget = b

\* the ranged archetypes of the unit table (units.ts:14-15)
RangedArchetypes == {"Archer", "Sniper", "Artillery"}

\* the child at place i is a live enemy of a at a distance between half of a's
\* range and a's range
InBand(a, i) ==
    LET e == units[children[i]]
        sq == SqDist(units[a].position, e.position)
        rangeSq == units[a].stats.range * units[a].stats.range
    IN  /\ children[i] # a
        /\ isAlive(e)
        /\ e.faction # units[a].faction
        /\ sq <= rangeSq
        /\ 4 * sq >= rangeSq

\* C20: when a live unit of a ranged archetype inside the objective runs a
\* targeting cycle and some enemy of the collection is in its band, it ends the
\* cycle attacking the first such enemy in collection order, also when a nearer
\* enemy comes later in the collection.
RangedTakesFirstInBand ==
    [][\A a \in UnitIds, i \in 1..Len(children) :
          (/\ Updating(a) /\ isAlive(units[a]) /\ SearchDue(units[a])
           /\ units[a].type \in RangedArchetypes
           /\ InsideObjective(units[a])
           /\ InBand(a, i)
           /\ \A j \in 1..(i - 1) : ~InBand(a, j))
              => /\ units'[a].isAttacking
                 /\ units'[a].currentTarget = children[i]]_vars

\* the child at place i is a live enemy of a within a's range
Eligible(a, i) ==
    /\ children[i] # a
    /\ isAlive(units[children[i]])
    /\ units[children[i]].faction # units[a].faction
    /\ SqDist(units[a].position, units[children[i]].position)
           <= units[a].stats.range * units[a].stats.range

\* and no eligible enemy is nearer, nor one that comes before it as near
NearestFirst(a, i) ==
    /\ Eligible(a, i)
    /\ \A j \in 1..Len(children) :
          Eligible(a, j) =>
              LET di == SqDist(units[a].position, units[children[i]].position)
                  dj == SqDist(units[a].position, units[children[j]].position)
              IN  di <= dj /\ (di = dj => i <= j)

\* C21: a targeting run of a live non-ranged unit inside the objective ends
\* with the unit attacking the eligible enemy of least distance among those
\* within its range, the first of them in the collection when several are
\* equally near; when no eligible enemy is within range it selects none (the
\* current target and the attacking flag stay as they were).
NearestEnemySelected ==
    [][\A a \in UnitIds :
          (/\ Updating(a) /\ isAlive(units[a]) /\ SearchDue(units[a])
           /\ units[a].type \notin RangedArchetypes
           /\ InsideObjective(units[a]))
              => /\ \A i \in 1..Len(children) :
                        NearestFirst(a, i)
                            => /\ units'[a].currentTarget = children[i]
                               /\ units'[a].isAttacking
                 /\ (\A i \in 1..Len(children) : ~Eligible(a, i))
                        => /\ units'[a].currentTarget = units[a].currentTarget
                           /\ units'[a].isAttacking = units[a].isAttacking]_vars

\* a warrior between two live enemies that are equally near has just run the
\* policy and attacks the one that comes first in the collection
TieKeepsFirst ==
    \E a \in UnitIds, i \in 1..Len(children), j \in 1..Len(children) :
        /\ i < j
        /\ isAlive(units[a])
        /\ units[a].type \notin RangedArchetypes
        /\ InsideObjective(units[a])
        /\ Eligible(a, i) /\ Eligible(a, j)
        /\ SqDist(units[a].position, units[children[i]].position)
               = SqDist(units[a].position, units[children[j]].position)
        /\ units[a].lastTargetSearchTime = now
        /\ units[a].isAttacking
        /\ units[a].currentTarget = children[i]

\* C22: a unit's currentTarget, when set, is another unit, of another faction,
\* and whenever a step gives a unit a new currentTarget that unit was alive
\* when the step began: the targeting policy never makes a unit target itself,
\* a unit of its own faction or a unit that is already dead.
TargetIsLiveEnemy ==
    [][\A a \in UnitIds :
          LET t == units'[a].currentTarget
          IN  /\ t # NoTarget
                     => /\ t \in UnitIds
                        /\ t # a
                        /\ units[t].faction # units[a].faction
              /\ (t # NoTarget /\ t # units[a].currentTarget)
                     => isAlive(units[t])]_vars

\* a unit inside the objective has just run the policy with a dead enemy of
\* the collection within its range, and has no target
DeadEnemyPassedOver ==
    \E a \in UnitIds, i \in 1..Len(children) :
        /\ isAlive(units[a])
        /\ InsideObjective(units[a])
        /\ children[i] # a
        /\ units[children[i]].faction # units[a].faction
        /\ ~isAlive(units[children[i]])
        /\ SqDist(units[a].position, units[children[i]].position)
               <= units[a].stats.range * units[a].stats.range
        /\ units[a].lastTargetSearchTime = now
        /\ units[a].currentTarget = NoTarget
        /\ ~units[a].isAttacking

\* this step is an update of `id` in which it resolves an attack: performAttack
\* is called and the attack timestamp is set to the present
ResolvesAttack(id) ==
    /\ Updating(id)
    /\ units[id].lastAttackTime # now
    /\ units'[id].lastAttackTime = now

\* C23: a unit resolves an attack only against a current target that is alive
\* at that moment; no damage is rolled against a dead target.
AttackOnlyLiveTarget ==
    [][\A id \in UnitIds :
          ResolvesAttack(id)
              => /\ units'[id].currentTarget # NoTarget
                 /\ isAlive(units[units'[id].currentTarget])]_vars

\* the unit's current target is dead or no longer in the collection
TargetLost(u) ==
    /\ u.currentTarget # NoTarget
    /\ \/ ~isAlive(units[u.currentTarget])
       \/ ~InContainer(children, u.currentTarget)

\* C24: when a live unit whose current target has died or has left the
\* collection runs the targeting policy, it ends the run with a currentTarget
\* that no longer refers to that unit (none, or a live enemy) and it is not in
\* the attacking state against the lost one.
LostTargetDropped ==
    [][\A id \in UnitIds :
          (/\ Updating(id) /\ isAlive(units[id]) /\ SearchDue(units[id])
           /\ TargetLost(units[id]))
              => units'[id].currentTarget # units[id].currentTarget]_vars

\* where the unit stands when it resolves an attack in this step: the first
\* strike of attack() comes before the update's movement, the combat block
\* after it
StrikePosition(id) ==
    IF variant = "legacy" /\ units[id].lastAttackTime = 0
    THEN units[id].position
    ELSE units'[id].position

\* the cooldown of `id` is over when its update reaches the combat block
CooldownElapsed(id) ==
    /\ CooldownOver(units[id], now)
    /\ ~(variant = "legacy" /\ units[id].lastAttackTime = 0)

\* C25: a step other than a takeDamage call from outside lowers a unit's
\* health only if an attacker whose current target it is has resolved an
\* attack in that step from a position that has it within range; and an
\* update that reaches the combat block with the cooldown over and the target
\* out of range sets the movement target to the target's position, sets
\* isMoving, resolves no attack and lowers no unit's health.
DamageOnlyInRange ==
    [][/\ \A o \in UnitIds :
             (lastCall'.op # "takeDamage" /\ getHealth(units'[o]) < getHealth(units[o]))
                 => \E id \in UnitIds \ {o} :
                       /\ units'[id].currentTarget = o
                       /\ units'[id].lastAttackTime = now
                       /\ SqDist(StrikePosition(id), units[o].position)
                              <= units[id].stats.range * units[id].stats.range
       /\ \A id \in UnitIds :
             LET v == units'[id]
                 t == v.currentTarget
             IN  (/\ Updating(id) /\ isAlive(units[id])
                  /\ v.isAttacking /\ t # NoTarget
                  /\ CooldownElapsed(id)
                  /\ ~isInRange(v, units[t]))
                     => /\ v.targetPosition = getPosition(units[t])
                        /\ v.isMoving
                        /\ v.lastAttackTime = units[id].lastAttackTime
                        /\ \A o \in UnitIds :
                               getHealth(units'[o]) = getHealth(units[o])]_vars

\* a unit with the cooldown over and its target out of range has been updated:
\* it is on its way to the target's position and the target is unhurt
ChasingTarget ==
    \E id \in UnitIds :
        LET u == units[id]
        IN  /\ frame.active /\ InContainer(frame.done, id)
            /\ isAlive(u)
            /\ u.isAttacking /\ u.currentTarget # NoTarget
            /\ CooldownOver(u, now)
            /\ ~isInRange(u, units[u.currentTarget])
            /\ u.targetPosition = getPosition(units[u.currentTarget])
            /\ u.isMoving
            /\ getHealth(units[u.currentTarget]) = units[u.currentTarget].stats.maxHealth

\* the most one attack of u can take
MaxRoll(u) ==
    IF variant = "current" THEN rollDamageCurrent(u, 99) ELSE rollDamageLegacy(u, 99)

\* C26: a unit resolves an attack only if it has never resolved one before or
\* at least 1 / attackSpeed seconds (10000 / attackSpeed ms, attackSpeed in
\* tenths) have passed since it resolved the last one; this holds for the
\* immediate first strike too.
CooldownRespected ==
    [][\A id \in UnitIds :
          (units'[id].lastAttackTime = now /\ units[id].lastAttackTime # now)
              => \/ units[id].lastAttackTime = 0
                 \/ (now - units[id].lastAttackTime) * units[id].stats.attackSpeed
                        >= 10000]_vars

\* a unit has just resolved an attack on a live target that only it attacks,
\* and the target has lost more than one attack can take: it is at least the
\* unit's second
SecondAttackResolved ==
    \E id \in UnitIds :
        LET u == units[id]
            t == u.currentTarget
        IN  /\ u.lastAttackTime = now
            /\ t # NoTarget
            /\ isAlive(units[t])
            /\ \A other \in UnitIds \ {id} : units[other].currentTarget # t
            /\ units[t].stats.maxHealth - getHealth(units[t]) > MaxRoll(u)

\* C27: an update of a live unit runs the targeting policy exactly when at
\* least TARGET_SEARCH_INTERVAL ms have passed since the unit's last run, so
\* two runs of a unit are at least that far apart.  A run sets the time of
\* the last search to the present and, for a unit inside the objective with
\* no enemy in range, clears the movement target; an update without a run
\* leaves the time of the last search, the current target and the attacking
\* flag alone and does not drop a movement target the unit has not reached.
SearchThrottled ==
    [][\A id \in UnitIds :
          LET u == units[id]
              v == units'[id]
          IN  (Updating(id) /\ isAlive(u))
                  => IF now - u.lastTargetSearchTime >= TARGET_SEARCH_INTERVAL
                     THEN /\ v.lastTargetSearchTime = now
                          /\ (/\ InsideObjective(u) /\ ~u.isAttacking
                               /\ \A i \in 1..Len(children) : ~Eligible(id, i))
                                 => (v.targetPosition = NoPoint /\ ~v.isMoving)
                     ELSE /\ v.lastTargetSearchTime = u.lastTargetSearchTime
                          /\ v.currentTarget = u.currentTarget
                          /\ v.isAttacking = u.isAttacking
                          /\ (/\ ~u.isAttacking /\ u.targetPosition # NoPoint
                               /\ SqDist(u.position, u.targetPosition) >= 1)
                                 => v.targetPosition = u.targetPosition]_vars

\* a live unit inside the objective, with no enemy, has been updated in this
\* frame less than the interval after its last run, and still has the movement
\* target a run would have cleared
SearchSkipped ==
    \E id \in UnitIds :
        /\ frame.active /\ InContainer(frame.done, id)
        /\ isAlive(units[id])
        /\ InsideObjective(units[id])
        /\ units[id].lastTargetSearchTime > now - TARGET_SEARCH_INTERVAL
        /\ units[id].lastTargetSearchTime < now
        /\ units[id].targetPosition # NoPoint

\* the point is within 10 of the control point on each axis
NearControlPoint(p) ==
    /\ p # NoPoint
    /\ controlPoint[1] - 10 <= p[1] /\ p[1] <= controlPoint[1] + 10
    /\ controlPoint[2] - 10 <= p[2] /\ p[2] <= controlPoint[2] + 10

\* C28: in every reachable state, a targeting run of a live unit of the
\* collection that is farther than CONTROL_POINT_RADIUS from the control
\* point, whatever it draws, sets the unit's movement target to a point within
\* 10 of the control point on each axis and sets isMoving, and changes nothing
\* else: not the unit's currentTarget or isAttacking flag, and no other unit,
\* also when an enemy is within its range.
OutsideRunMarches ==
    \A id \in UnitIds :
        (isAlive(units[id]) /\ InContainer(children, id) /\ ~InsideObjective(units[id]))
            => \A o \in Offsets, r \in Rolls :
                  LET after == searchForTargets(variant, units, children, id, now, o, r)
                  IN  /\ NearControlPoint(after[id].targetPosition)
                      /\ after[id].isMoving
                      /\ after[id] = [units[id] EXCEPT
                                         !.targetPosition = after[id].targetPosition,
                                         !.isMoving = TRUE]
                      /\ \A other \in UnitIds \ {id} : after[other] = units[other]

\* a unit outside the objective with a live enemy within its range has run
\* the policy in this frame: it is on its way to the control point and has no
\* target, and the enemy is unhurt
OutsideIgnoresEnemy ==
    \E id \in UnitIds, i \in 1..Len(children) :
        /\ isAlive(units[id]) /\ InContainer(children, id)
        /\ ~InsideObjective(units[id])
        /\ Eligible(id, i)
        /\ units[id].lastTargetSearchTime = now
        /\ NearControlPoint(units[id].targetPosition)
        /\ units[id].isMoving
        /\ units[id].currentTarget = NoTarget /\ ~units[id].isAttacking
        /\ getHealth(units[children[i]]) = units[children[i]].stats.maxHealth

\* C29 as stated: a live unit inside the objective that has run the policy,
\* has never found a target and has had its movement target cleared holds its
\* position, and gets no movement target, until a run finds it a target
\* (moveTo called from outside aside).
HoldsUntilTargetFound ==
    [][\A id \in UnitIds :
          LET u == units[id]
              v == units'[id]
          IN  (/\ calls' = calls
               /\ isAlive(u) /\ InsideObjective(u)
               /\ u.lastTargetSearchTime # 0
               /\ u.currentTarget = NoTarget
               /\ u.targetPosition = NoPoint /\ ~u.isMoving)
                  => /\ v.position = u.position
                     /\ v.targetPosition = NoPoint \/ v.currentTarget # NoTarget]_vars

\* the combat block has sent the unit after its out-of-range current target
Chasing(v) ==
    /\ v.isAttacking
    /\ v.currentTarget # NoTarget
    /\ ~isInRange(v, units[v.currentTarget])
    /\ v.targetPosition = getPosition(units[v.currentTarget])
    /\ v.isMoving

\* C29, amended: an update in which a live unit inside the objective runs the
\* policy and finds no eligible enemy within range leaves the unit where it
\* is, with its movement target cleared and isMoving false (unless the combat
\* block of the same update sends it after an out-of-range current target);
\* and a live unit inside the objective holds its position in every step that
\* begins with it having no movement target.
EmptyRunHalts ==
    [][\A id \in UnitIds :
          LET u == units[id]
              v == units'[id]
          IN  /\ (/\ Updating(id) /\ isAlive(u) /\ SearchDue(u)
                   /\ InsideObjective(u)
                   /\ \A i \in 1..Len(children) : ~Eligible(id, i))
                      => /\ v.position = u.position
                         /\ (v.targetPosition = NoPoint /\ ~v.isMoving) \/ Chasing(v)
              /\ (isAlive(u) /\ InsideObjective(u) /\ u.targetPosition = NoPoint)
                      => v.position = u.position]_vars

\* the points the units of a march are spawned at
MarchSpawnPoints ==
    {calculateSpawnPoint(c.position, c.randomRadius) : c \in MarchSpawnCalls}

\* a unit on its way to the control point has been halted short of it by a
\* run that found no enemy
HaltedOnTheWay ==
    \E id \in UnitIds :
        /\ isAlive(units[id])
        /\ InsideObjective(units[id])
        /\ units[id].lastTargetSearchTime = now
        /\ units[id].targetPosition = NoPoint
        /\ ~units[id].isMoving
        /\ units[id].position \notin MarchSpawnPoints \cup MarchPoints
        /\ ~NearControlPoint(units[id].position)

\* unit `id` exists and is outside the objective
OutsideNow(id) == id \in UnitIds /\ ~InsideObjective(units[id])

\* unit `id` exists and is inside the objective, or dead
InsideOrDead(id) ==
    id \in UnitIds /\ (InsideObjective(units[id]) \/ ~isAlive(units[id]))

\* C30: while frames keep running, a unit that is outside the objective is
\* eventually within CONTROL_POINT_RADIUS of the control point, unless it dies
\* first.
ReachesObjective ==
    \A id \in 1..MaxUnits : OutsideNow(id) ~> InsideOrDead(id)

\* a live unit stands inside the objective farther from the control point than
\* any unit is spawned inside it: it has walked in from outside
WalkedIn ==
    \E id \in UnitIds :
        /\ isAlive(units[id])
        /\ InsideObjective(units[id])
        /\ units[id].lastTargetSearchTime # 0
        /\ \A c \in SpawnCalls :
              c.randomRadius <= CONTROL_POINT_RADIUS
                  => SqDist(units[id].position, controlPoint)
                         > c.randomRadius * c.randomRadius

\* unit `id` was updated in the frame that is running
UpdatedThisFrame(id) ==
    /\ frame.active
    /\ \E k \in 1..Len(frame.done) : frame.done[k] = id

\* C31: update called on a dead unit changes neither its position, its
\* movement target, its current target nor its attack timestamp, runs no target
\* search and takes no health from any unit; attack called on a dead unit
\* takes no health from any unit either.
DeadUpdateIdle ==
    [][\A id \in UnitIds :
          (~isAlive(units[id]) /\ (Updating(id) \/ \E t \in UnitIds, r \in Rolls : Attack(id, t, r)))
              => /\ units'[id].position = units[id].position
                 /\ units'[id].targetPosition = units[id].targetPosition
                 /\ units'[id].lastAttackTime = units[id].lastAttackTime
                 /\ units'[id].lastTargetSearchTime = units[id].lastTargetSearchTime
                 /\ Updating(id) => units'[id].currentTarget = units[id].currentTarget
                 /\ \A o \in UnitIds : getHealth(units'[o]) = getHealth(units[o])]_vars

\* a dead unit has been updated while its target stood alive within its range
\* and its search was due
DeadUnitUpdated ==
    \E id \in UnitIds :
        /\ ~isAlive(units[id])
        /\ UpdatedThisFrame(id)
        /\ units[id].currentTarget \in UnitIds
        /\ isAlive(units[units[id].currentTarget])
        /\ isInRange(units[id], units[units[id].currentTarget])
        /\ SearchDue(units[id])

\* C32: the update of one unit leaves every other unit as it was, but for the
\* health and the dead flag of the unit its current target names.
UpdateTouchesOnlyTarget ==
    [][\A id \in UnitIds, o \in UnitIds :
          (Updating(id) /\ o # id)
              => /\ units'[o] = [units[o] EXCEPT !.currentHealth = units'[o].currentHealth,
                                                 !.isDead = units'[o].isDead]
                 /\ units'[o] # units[o] => units'[id].currentTarget = o]_vars

\* a unit not yet updated in the running frame has lost health to the update
\* of a unit that targets it
StruckByUpdate ==
    \E id \in UnitIds, o \in UnitIds :
        /\ UpdatedThisFrame(id)
        /\ ~UpdatedThisFrame(o)
        /\ units[id].currentTarget = o
        /\ getHealth(units[o]) < getHealth(frame.was[o])
        /\ units[o].position = frame.was[o].position

\* C36: death is permanent: no step of heal, takeDamage, moveTo, attack or
\* update makes a unit alive again whose isAlive() was false.
DeathPermanent ==
    [][\A id \in UnitIds : ~isAlive(units[id]) => ~isAlive(units'[id])]_vars

\* heal has been called with a positive amount on a unit that was dead and is
\* dead still
DeadUnitHealed ==
    /\ lastCall.op = "heal"
    /\ lastCall.amount > 0
    /\ lastCall.dead
    /\ ~isAlive(Callee)

\* C38: for every unit isMoving is true exactly when targetPosition is set and
\* isAttacking is true exactly when currentTarget is set.
FlagsMatchTargets ==
    \A id \in UnitIds :
        /\ units[id].isMoving <=> units[id].targetPosition # NoPoint
        /\ units[id].isAttacking <=> units[id].currentTarget # NoTarget

\* a unit that was on the move when the frame began has been updated, has
\* stopped and is attacking
StoppedAndAttacking ==
    \E id \in UnitIds :
        /\ UpdatedThisFrame(id)
        /\ frame.was[id].isMoving
        /\ ~units[id].isMoving
        /\ units[id].isAttacking

\* the damage performAttack of unit u rolls in the build that runs
DamageRoll(u, roll) ==
    IF variant = "current" THEN rollDamageCurrent(u, roll) ELSE rollDamageLegacy(u, roll)

\* C37: every damage roll of a unit is a whole number between
\* round(damage * (1 - v)) and round(damage * (1 + v)), v the variance of the
\* unit's type, which is at most 0.3; no roll is negative.
DamageRollWithinVariance ==
    \A id \in UnitIds, roll \in Rolls :
        LET u == units[id]
            v == Variance(u.type)
        IN  /\ v <= 30
            /\ DamageRoll(u, roll) \in Nat
            /\ Round(u.stats.damage * (100 - v), 100) <= DamageRoll(u, roll)
            /\ DamageRoll(u, roll) <= Round(u.stats.damage * (100 + v), 100)

\* U x V, the third component of the cross product
Cross(U, V) == U[1] * V[2] - U[2] * V[1]

\* point lies in the wedge that opens at the spawner's centre from the
\* direction of angle a to that of angle b, to the nearest pixel
InWedge(point, a, b) ==
    LET P == <<point[1] - spawnCentre[1], point[2] - spawnCentre[2]>>
    IN  /\ Cross(<<Cos(a), Sin(a)>>, P) >= -1000
        /\ Cross(P, <<Cos(b), Sin(b)>>) >= -1000

\* C35: a unit spawned for a sector label stands at a distance between
\* innerRadius and the outer radius from the spawner's centre and at an angle
\* between the label's angle and that of the next label clockwise.
SpawnInSector ==
    [][\A t \in SpawnerTypes, i \in 1..8, r \in RadiusDraws, d \in AngleDraws :
          (SpawnUnitAt(t, OctagonPositions[i], "Netrunners", r, d) /\ units' # units)
              => LET point == units'[Cardinality(UnitIds) + 1].position
                     label == OctagonPositions[i]
                 IN  /\ (innerRadius - 1) * (innerRadius - 1) <= SqDist(spawnCentre, point)
                     /\ SqDist(spawnCentre, point) <= (spawnRadius + 1) * (spawnRadius + 1)
                     /\ InWedge(point, POSITION_ANGLES(label),
                                POSITION_ANGLES(getNextPosition(label)))]_vars

\* the calls of handleCollision in the running frame that were for the pair
\* of units a and b
HitsOn(a, b) == {k \in 1..Len(frame.hits) : {frame.hits[k][1], frame.hits[k][2]} = {a, b}}

\* C33: in one frame of the collision driver no pair of units is handed to
\* handleCollision more than once, whichever of the two comes first.
EachPairOnce ==
    \A a \in UnitIds, b \in UnitIds : Cardinality(HitsOn(a, b)) <= 1

\* distance between two units, whole part
DistanceBetween(u, w) ==
    Length(w.position[1] - u.position[1], w.position[2] - u.position[2])

\* C34: handleCollision on two overlapping units of one faction that are not
\* at the same place moves each by half the overlap, away from the other
\* along the line through their centres: afterwards their distance is the sum
\* of their radii, they do not overlap, and nothing but their positions has
\* changed.
CollisionSeparates ==
    [][\A a \in UnitIds, b \in UnitIds :
          (Collide(a, b) /\ units[a].faction = units[b].faction
                        /\ units[a].position # units[b].position)
              => LET d == DistanceBetween(units[a], units[b])
                     dx == units[b].position[1] - units[a].position[1]
                     dy == units[b].position[2] - units[a].position[2]
                     ax == units[a].position[1] - units'[a].position[1]
                     ay == units[a].position[2] - units'[a].position[2]
                     bx == units'[b].position[1] - units[b].position[1]
                     by == units'[b].position[2] - units[b].position[2]
                 IN  /\ SqDist(units'[a].position, units'[b].position)
                            = (radiusOldest + radiusOldest) * (radiusOldest + radiusOldest)
                     /\ ~checkCollision(units'[a], units'[b])
                     /\ ax = bx /\ ay = by
                     /\ 4 * (ax * ax + ay * ay)
                            = (radiusOldest + radiusOldest - d) * (radiusOldest + radiusOldest - d)
                     /\ ax * dy = ay * dx
                     /\ ax * dx + ay * dy > 0
                     /\ units'[a] = [units[a] EXCEPT !.position = units'[a].position]
                     /\ units'[b] = [units[b] EXCEPT !.position = units'[b].position]]_vars

\* two units that overlapped on a slanted line have been moved apart
SlantedPairSeparated ==
    /\ lastCall.op = "handleCollision"
    /\ units[1].position[1] # units[2].position[1]
    /\ units[1].position[2] # units[2].position[2]
    /\ units[1].faction = units[2].faction
    /\ ~checkCollision(units[1], units[2])

=============================================================================
